---------------------------- MODULE Spec2Model ----------------------------
(***************************************************************************)
(* A model of the cipher core of pchchv/tube: the signature transforms     *)
(* (reverse, splice, swap), the throttling array helpers, the throttling   *)
(* substitution cipher and the object extractor of parser.py.              *)
(*                                                                         *)
(* Python lists and strings are sequences; Python positions are 0-based,   *)
(* so position p of a list is element p + 1 of the sequence.               *)
(***************************************************************************)
EXTENDS Integers, Sequences, FiniteSets, TLC

VARIABLES
    \* ---- signature transforms (cipher.py reverse/splice/swap) ----
    ciphered_signature, \* the argument of get_signature
    transform_plan,     \* sequence of [op, arg] calls, in plan order
    trace,              \* trace[k+1] = the signature after k plan steps
    terr,               \* "none" or the exception that ended the run
    \* ---- throttling array helpers ----
    d0,                 \* the list passed in, as it was before any call
    d,                  \* the list object (mutated in place)
    e,                  \* the integer argument
    ret,                \* the value returned by throttling_mod_func
    calls,              \* names of the helpers called so far
    herr,               \* "none" or the exception raised
    \* ---- throttling_cipher_function ----
    cd0,                \* the list passed in, before the call
    cd,                 \* the list object (mutated in place)
    ce,                 \* the key string e
    this,               \* local: the growing key stream
    f,                  \* local: starts at 96, decremented per position
    m,                  \* local: the loop index
    copied_list,        \* local: d.copy()
    cpc,                \* "start", "loop", "done", "error"
    cerr,               \* "none" or the exception raised
    \* ---- parser.py find_object_from_startpoint ----
    html_arg,           \* the argument html
    start_point,        \* the argument start_point
    html,               \* local: html[start_point:]
    stack,              \* local: the open contexts
    i,                  \* local: the scan index
    full_obj,           \* the returned span
    ppc,                \* "start", "loop", "done", "error"
    perr,               \* "none" or the exception raised
    \* ---- cipher.py: the pattern matchers and the resolver ----
    call,               \* the function that is called
    searches,           \* regex.search(js) per function pattern: <<>> (None)
                        \* or the tuple of the match's groups
    pat,                \* local: 1-based position in function_patterns
    function_match,     \* throttle pattern: <<>> (None) or <<name, idx>>,
                        \* idx = <<>> when the optional group is None
    array,              \* the `var <name> = [...];` search: <<>> (None) or
                        \* the text of its group 1
    def_match,          \* the `<name>=function(x)` search found a match
    body,               \* what find_object_from_startpoint gives there
    result,             \* the value returned (<<>> while there is none)
    exc,                \* the exception raised, NoExc while there is none
    mpc,                \* "start", "loop", "code", "done", "error"
    js,                 \* get_transform_map: the script text
    var,                \* get_transform_map: the container variable name
    transform_object,   \* local: the entries get_transform_object returns
    obj,                \* local: 1-based position in transform_object
    mapper,             \* local and result: entry name -> transform
    js_func,            \* map_functions: the function text
    fn,                 \* what map_functions returned last ("" so far)
    \* ---- extract.py apply_signature ----
    manifest_arg,       \* the argument stream_manifest, as it was passed
    stream_manifest,    \* the list of stream dicts (mutated in place)
    vid_info,           \* the argument vid_info
    si,                 \* local i of the loop, 1-based
    url,                \* local: Unbound until a stream's url is read
    invoked,            \* the calls made on the cipher, in order
    aexc,               \* "none" or the exception raised
    apc,                \* "idle", "loop", "done", "error"
    \* ---- __main__.py YouTube.js and the module-level cache ----
    _js_url,            \* per instance: its js_url
    _js,                \* per instance: self._js, NoText while unset
    __js__,             \* tube.__js__, NoText while None
    __js_url__,         \* tube.__js_url__, NoUrl while None
    jpc,                \* per instance: the statement of `js` it is at,
                        \* "idle" or "raised" between reads
    \* ---- helpers.py cache ----
    lru,                \* the keys lru_cache holds, least recently used first
    recency,            \* history: every argument used, last use order
    executed,           \* per argument: how often the wrapped body ran
    stuff,              \* the argument of the last call
    returned,           \* what the last call returned
    \* ---- search.py Search ----
    _results,           \* self._results, NoResults while None
    _current_continuation, \* self._current_continuation, NoUrl while None
    scall,              \* the last operation made on the Search
    fetched,            \* what the last fetch_and_parse returned
    sexc,               \* "none" or the exception the last call raised
    ops,                \* how many reads and calls were made
    \* ---- streams.py Stream.filesize ----
    contentLength,      \* the manifest's contentLength: {} when the key
                        \* is missing, else the set of its one value
    _filesize,          \* self._filesize
    filesize_cache,     \* lru_cache of request.filesize for the url
    seq_filesize_cache, \* lru_cache of request.seq_filesize for the url
    requested,          \* the request functions whose bodies ran (http
                        \* requests were made), with the status they got
    fret,               \* what the last read returned (0 before any)
    fexc,               \* NoError or the exception the last read raised
    reads               \* how many reads were made

tvars == <<ciphered_signature, transform_plan, trace, terr>>
hvars == <<d0, d, e, ret, calls, herr>>
cvars == <<cd0, cd, ce, this, f, m, copied_list, cpc, cerr>>
pvars == <<html_arg, start_point, html, stack, i, full_obj, ppc, perr>>
nvars == <<call, searches, pat, function_match, array, def_match, body,
           result, exc, mpc>>
rvars == <<js, var, transform_object, obj, mapper, js_func, fn>>
avars == <<manifest_arg, stream_manifest, vid_info, si, url, invoked,
           aexc, apc>>
jvars == <<_js_url, _js, __js__, __js_url__, jpc>>
kvars == <<lru, recency, executed, stuff, returned>>
svars == <<_results, _current_continuation, scall, fetched, sexc, ops>>
fvars == <<contentLength, _filesize, filesize_cache, seq_filesize_cache,
           requested, fret, fexc, reads>>
xvars == <<jvars, kvars, svars, fvars>>
mvars == <<nvars, rvars, avars, xvars>>
vars == <<tvars, hvars, cvars, pvars, mvars>>

-----------------------------------------------------------------------------
(* Bounds *)
MaxLen == 3        \* longest list drawn for the transforms and the helpers
MaxArg == 3        \* integer arguments range over -MaxArg..MaxArg
MaxPlanLen == 2    \* longest transform plan drawn
MaxCalls == 2      \* helper calls made in a row on one list
MaxPeriods == 2    \* periods k checked for throttling_mod_func
MaxCipherLen == 3  \* longest list given to throttling_cipher_function
MaxKeyLen == 2     \* longest key string given to it
MaxTextLen == 5    \* longest text drawn for the object extractor
MaxStart == 1      \* start_point ranges over 0..MaxStart
MaxMatching == 2   \* function patterns that match one script
MaxIdx == 2        \* the bracketed throttle index ranges over 0..MaxIdx
MaxEntries == 2    \* entries of the container object literal

Elems == {"a", "b", "c"}
Args == (0 - MaxArg)..MaxArg

SeqsUpTo(S, n) == UNION {[1..k -> S] : k \in 0..n}

-----------------------------------------------------------------------------
(* Python list semantics *)

\* a slice bound clamped the way list.__getitem__(slice) clamps it
PyBound(n, ix) ==
    IF ix < 0 THEN (IF n + ix < 0 THEN 0 ELSE n + ix)
             ELSE (IF ix > n THEN n ELSE ix)

\* a[lo:hi]
PySlice(a, lo, hi) ==
    LET l == PyBound(Len(a), lo)
        h == PyBound(Len(a), hi)
    IN  IF l >= h THEN <<>> ELSE SubSeq(a, l + 1, h)

\* a[lo:]
PyFrom(a, lo) == PySlice(a, lo, Len(a))

\* a[:hi]
PyTo(a, hi) == PySlice(a, 0, hi)

\* a[i] of an in-range, non-negative position
PyAt(a, ix) == a[ix + 1]

\* Python's %: the result takes the sign of the (positive) divisor
PyMod(x, n) == x % n

\* a[::-1]
PyReversed(a) == [k \in 1..Len(a) |-> a[Len(a) + 1 - k]]

-----------------------------------------------------------------------------
(* cipher.py: the three signature transforms *)

\* a reverse that lets its second argument decide: not the code
reverse_uses_arg(arr, x) == IF x = 0 THEN PyReversed(arr) ELSE arr

\* reverse(arr, _): return arr[::-1]
reverse(arr, x) == PyReversed(arr)

\* a splice that keeps the prefix (arr[:b]) instead: not the code
splice_keeps_prefix(arr, b) == PyTo(arr, b)

\* splice(arr, b): return arr[b:]
splice(arr, b) == PyFrom(arr, b)

\* a swap that forgets to put arr[0] back at position r: not the code
swap_drops_first(arr, b) ==
    LET r == PyMod(b, Len(arr))
    IN  <<PyAt(arr, r)>> \o PySlice(arr, 1, r) \o PyFrom(arr, r)

\* swap(arr, b): r = b % len(arr);
\* return list(chain([arr[r]], arr[1:r], [arr[0]], arr[r + 1:]))
swap(arr, b) ==
    LET r == PyMod(b, Len(arr))
    IN  <<PyAt(arr, r)>> \o PySlice(arr, 1, r) \o <<PyAt(arr, 0)>>
            \o PyFrom(arr, r + 1)

\* the exchange of positions p and q of a, written directly
Exchanged(a, p, q) ==
    [k \in 1..Len(a) |-> IF k = p + 1 THEN a[q + 1]
                         ELSE IF k = q + 1 THEN a[p + 1]
                         ELSE a[k]]

-----------------------------------------------------------------------------
(* Signature decryption: the plan is applied call by call *)

Call(o, n) == [op |-> o, arg |-> n]

OpNames == {"reverse", "splice", "swap"}
PlanCalls == {Call(o, n) : o \in OpNames, n \in Args}

\* the end-to-end scenario: [reverse, swap(b=3), splice(b=2), reverse]
GoldenPlan ==
    <<Call("reverse", 0), Call("swap", 3), Call("splice", 2),
      Call("reverse", 0)>>
GoldenSignature == <<"a", "b", "c", "d", "e", "f">>

\* number of plan steps already applied, and the current signature
pos == Len(trace) - 1
signature == trace[Len(trace)]

TIdle ==
    /\ ciphered_signature = <<>>
    /\ transform_plan = <<>>
    /\ trace = <<>>
    /\ terr = "none"

HIdle ==
    /\ d0 = <<>>
    /\ d = <<>>
    /\ e = 0
    /\ ret = 0
    /\ calls = <<>>
    /\ herr = "none"

CIdle ==
    /\ cd0 = <<>>
    /\ cd = <<>>
    /\ ce = <<>>
    /\ this = <<>>
    /\ f = 0
    /\ m = 0
    /\ copied_list = <<>>
    /\ cpc = "idle"
    /\ cerr = "none"

PIdle ==
    /\ html_arg = <<>>
    /\ start_point = 0
    /\ html = <<>>
    /\ stack = <<>>
    /\ i = 0
    /\ full_obj = <<>>
    /\ ppc = "idle"
    /\ perr = "none"

NoExc == [type |-> "none", caller |-> "", pattern |-> ""]
NoBody == [err |-> "none", text |-> <<>>]

RIdle ==
    /\ js = <<>>
    /\ var = <<>>
    /\ transform_object = <<>>
    /\ obj = 0
    /\ mapper = <<>>
    /\ js_func = <<>>
    /\ fn = ""

\* a local variable that has not been assigned
Unbound == <<"<unbound>">>

AIdle ==
    /\ manifest_arg = <<>>
    /\ stream_manifest = <<>>
    /\ vid_info = <<>>
    /\ si = 0
    /\ url = Unbound
    /\ invoked = <<>>
    /\ aexc = "none"
    /\ apc = "idle"

\* None where a text, a url or a list is expected
NoText == [from |-> "None"]
NoUrl == "None"
NoResults == <<"None">>

JIdle ==
    /\ _js_url = <<>>
    /\ _js = <<>>
    /\ __js__ = NoText
    /\ __js_url__ = NoUrl
    /\ jpc = <<>>

\* what a call of the wrapped function returns: its argument, marked
\* with the number of the execution of the body that computed it
Body(x, n) == [value |-> x, run |-> n]

KIdle ==
    /\ lru = <<>>
    /\ recency = <<>>
    /\ executed = <<>>
    /\ stuff = 0
    /\ returned = Body(0, 0)

\* (videos, continuation) as fetch_and_parse returns them
Fetched(vs, ct) == [videos |-> vs, continuation |-> ct]

SIdle ==
    /\ _results = NoResults
    /\ _current_continuation = NoUrl
    /\ scall = "none"
    /\ fetched = Fetched(<<>>, NoUrl)
    /\ sexc = "none"
    /\ ops = 0

\* exceptions a read of filesize may end with
NoError == [type |-> "none", code |-> 0]
HTTPError(c) == [type |-> "HTTPError", code |-> c]
SegmentCountError == [type |-> "RegexMatchError", code |-> 0]

FIdle ==
    /\ contentLength = {}
    /\ _filesize = 0
    /\ filesize_cache = {}
    /\ seq_filesize_cache = {}
    /\ requested = <<>>
    /\ fret = 0
    /\ fexc = NoError
    /\ reads = 0

XIdle ==
    /\ JIdle
    /\ KIdle
    /\ SIdle
    /\ FIdle

NIdle ==
    /\ call = "idle"
    /\ searches = <<>>
    /\ pat = 0
    /\ function_match = <<>>
    /\ array = <<>>
    /\ def_match = FALSE
    /\ body = NoBody
    /\ result = <<>>
    /\ exc = NoExc
    /\ mpc = "idle"

MIdle ==
    /\ NIdle
    /\ RIdle
    /\ AIdle
    /\ XIdle

InitTransform ==
    /\ ciphered_signature \in SeqsUpTo(Elems, MaxLen) \cup {GoldenSignature}
    /\ transform_plan \in SeqsUpTo(PlanCalls, MaxPlanLen) \cup {GoldenPlan}
    /\ trace = <<ciphered_signature>>
    /\ terr = "none"
    /\ HIdle
    /\ CIdle
    /\ PIdle
    /\ MIdle

\* the next call of the plan, when there is one
HasNext == terr = "none" /\ pos < Len(transform_plan)
NextCall == transform_plan[pos + 1]

\* signature = reverse(signature, argument)
StepReverse ==
    /\ HasNext
    /\ NextCall.op = "reverse"
    /\ trace' = Append(trace, reverse(signature, NextCall.arg))
    /\ UNCHANGED <<ciphered_signature, transform_plan, terr, hvars, cvars, pvars, mvars>>

\* signature = splice(signature, argument)
StepSplice ==
    /\ HasNext
    /\ NextCall.op = "splice"
    /\ trace' = Append(trace, splice(signature, NextCall.arg))
    /\ UNCHANGED <<ciphered_signature, transform_plan, terr, hvars, cvars, pvars, mvars>>

\* signature = swap(signature, argument); b % len(arr) raises on an
\* empty list
StepSwap ==
    /\ HasNext
    /\ NextCall.op = "swap"
    /\ IF Len(signature) = 0
          THEN /\ terr' = "ZeroDivisionError"
               /\ UNCHANGED trace
          ELSE /\ trace' = Append(trace, swap(signature, NextCall.arg))
               /\ UNCHANGED terr
    /\ UNCHANGED <<ciphered_signature, transform_plan, hvars, cvars, pvars, mvars>>

NextTransform == StepReverse \/ StepSplice \/ StepSwap

SpecTransform == InitTransform /\ [][NextTransform]_vars

-----------------------------------------------------------------------------
(* Claims about the signature transforms, checked under SpecTransform *)

\* the plan steps already applied
Applied == 1..pos

\* C1: for a non-empty list a and an integer b, swap(a, b) has the length
\* of a and equals a with positions 0 and r = b mod len(a) exchanged (so
\* it equals a when r = 0).
C1_SwapExchanges ==
    \A k \in Applied :
        (transform_plan[k].op = "swap" /\ Len(trace[k]) > 0) =>
            LET a == trace[k]
                r == transform_plan[k].arg % Len(a)
            IN  /\ Len(trace[k + 1]) = Len(a)
                /\ trace[k + 1] = Exchanged(a, 0, r)

\* C2: for a non-empty list a and an integer b, swap(swap(a, b), b) = a.
C2_SwapTwiceRestores ==
    \A k \in Applied :
        (/\ k + 1 \in Applied
         /\ transform_plan[k].op = "swap"
         /\ transform_plan[k + 1] = transform_plan[k]
         /\ Len(trace[k]) > 0) =>
            trace[k + 2] = trace[k]

C4_ReverseReverses ==
    \A k \in Applied :
        transform_plan[k].op = "reverse" =>
            LET a == trace[k]
                n == Len(a)
            IN  /\ Len(trace[k + 1]) = n
                /\ \A ix \in 0..(n - 1) :
                       PyAt(trace[k + 1], ix) = PyAt(a, n - 1 - ix)
                /\ \A x \in Args : reverse(a, x) = trace[k + 1]
                /\ (k + 1 \in Applied
                        /\ transform_plan[k + 1] = transform_plan[k]) =>
                       trace[k + 2] = a

C4_Witness ==
    /\ pos = 2
    /\ transform_plan[1].op = "reverse"
    /\ transform_plan[1].arg = 2
    /\ transform_plan[2] = transform_plan[1]
    /\ ciphered_signature = <<"a", "b", "c">>
    /\ trace[2] = <<"c", "b", "a">>
    /\ trace[3] = ciphered_signature

\* the hand-computed values of the end-to-end scenario
GoldenTrace ==
    <<GoldenSignature,
      <<"f", "e", "d", "c", "b", "a">>,
      <<"c", "e", "d", "f", "b", "a">>,
      <<"d", "f", "b", "a">>,
      <<"a", "b", "f", "d">>>>

\* C5: the plan's operations are applied in plan order: for the plan
\* [reverse, swap(3), splice(2), reverse] on "abcdef" the intermediate
\* values are "fedcba", "cedfba", "dfba" and the signature is "abfd".
C5_GoldenScenario ==
    (ciphered_signature = GoldenSignature /\ transform_plan = GoldenPlan) =>
        /\ terr = "none"
        /\ \A k \in 1..Len(trace) : trace[k] = GoldenTrace[k]

C5_Witness ==
    /\ ciphered_signature = GoldenSignature
    /\ transform_plan = GoldenPlan
    /\ pos = Len(GoldenPlan)
    /\ signature = <<"a", "b", "f", "d">>

-----------------------------------------------------------------------------
(* cipher.py: the throttling array helpers *)

\* a remainder that keeps the sign of e and is not folded back into
\* 0..len(d)-1: not the code
throttling_mod_signed(dd, ee) ==
    IF ee >= 0 THEN ee % Len(dd) ELSE 0 - ((0 - ee) % Len(dd))

\* throttling_mod_func(d, e): return (e % len(d) + len(d)) % len(d)
throttling_mod_func(dd, ee) ==
    PyMod(PyMod(ee, Len(dd)) + Len(dd), Len(dd))

\* a rotation to the left (d[e:] + d[:e]): not the code
throttling_unshift_left(dd, ee) ==
    LET k == throttling_mod_func(dd, ee)
    IN  PyFrom(dd, k) \o PyTo(dd, k)

\* throttling_unshift(d, e): e = throttling_mod_func(d, e);
\* new_arr = d[-e:] + d[:-e]; d is cleared and refilled from new_arr.
\* The value is the new content of d.
throttling_unshift(dd, ee) ==
    LET k == throttling_mod_func(dd, ee)
    IN  PyFrom(dd, 0 - k) \o PyTo(dd, 0 - k)

\* a swap without the temporary (d[0] = d[e]; d[e] = d[0]): not the code
throttling_swap_no_temp(dd, ee) ==
    LET k == throttling_mod_func(dd, ee)
    IN  [dd EXCEPT ![1] = dd[k + 1]]

\* throttling_swap(d, e): e = throttling_mod_func(d, e);
\* f = d[0]; d[0] = d[e]; d[e] = f.  The value is the new content of d.
throttling_swap(dd, ee) ==
    LET k == throttling_mod_func(dd, ee)
        tmp == PyAt(dd, 0)
        d1 == [dd EXCEPT ![1] = PyAt(dd, k)]
    IN  [d1 EXCEPT ![k + 1] = tmp]

InitThrottle ==
    /\ d0 \in SeqsUpTo(Elems, MaxLen)
    /\ d = d0
    /\ e \in Args
    /\ ret = 0
    /\ calls = <<>>
    /\ herr = "none"
    /\ TIdle
    /\ CIdle
    /\ PIdle
    /\ MIdle

CanCall == herr = "none" /\ Len(calls) < MaxCalls

\* every helper first takes e modulo len(d), which raises on an empty list
Raises == Len(d) = 0

\* ret = throttling_mod_func(d, e)
CallModFunc ==
    /\ CanCall
    /\ calls' = Append(calls, "mod")
    /\ IF Raises
          THEN herr' = "ZeroDivisionError" /\ UNCHANGED ret
          ELSE ret' = throttling_mod_func(d, e) /\ UNCHANGED herr
    /\ UNCHANGED <<d0, d, e, tvars, cvars, pvars, mvars>>

\* throttling_unshift(d, e)
CallUnshift ==
    /\ CanCall
    /\ calls' = Append(calls, "unshift")
    /\ IF Raises
          THEN herr' = "ZeroDivisionError" /\ UNCHANGED d
          ELSE d' = throttling_unshift(d, e) /\ UNCHANGED herr
    /\ UNCHANGED <<d0, e, ret, tvars, cvars, pvars, mvars>>

\* throttling_swap(d, e)
CallSwap ==
    /\ CanCall
    /\ calls' = Append(calls, "swap")
    /\ IF Raises
          THEN herr' = "ZeroDivisionError" /\ UNCHANGED d
          ELSE d' = throttling_swap(d, e) /\ UNCHANGED herr
    /\ UNCHANGED <<d0, e, ret, tvars, cvars, pvars, mvars>>

NextThrottle == CallModFunc \/ CallUnshift \/ CallSwap

SpecThrottle == InitThrottle /\ [][NextThrottle]_vars

-----------------------------------------------------------------------------
(* Claims about the throttling helpers, checked under SpecThrottle *)

Periods == (0 - MaxPeriods)..MaxPeriods

\* C6: for a non-empty list d and integers e and k,
\* throttling_mod_func(d, e) = throttling_mod_func(d, e + k*len(d)), and
\* the result lies in 0..len(d)-1.
C6_ModPeriodicInRange ==
    (calls # <<>> /\ calls[Len(calls)] = "mod" /\ herr = "none") =>
        /\ 0 <= ret
        /\ ret < Len(d)
        /\ \A k \in Periods : throttling_mod_func(d, e + k * Len(d)) = ret

C6_Witness ==
    /\ calls = <<"mod">>
    /\ herr = "none"
    /\ Len(d) = 3
    /\ e = 0 - 2
    /\ ret = 1

\* C7: for a non-empty list d and an integer e, throttling_unshift(d, e)
\* turns d into its right rotation by k = throttling_mod_func(d, e): same
\* length, new d[i] = old d[(i - k) mod len(d)], unchanged when k = 0.
C7_UnshiftRotatesRight ==
    (calls = <<"unshift">> /\ herr = "none") =>
        LET n == Len(d0)
            k == ((e % n) + n) % n
        IN  /\ Len(d) = n
            /\ \A ix \in 0..(n - 1) : PyAt(d, ix) = PyAt(d0, (ix - k) % n)
            /\ k = 0 => d = d0

C7_Witness ==
    /\ calls = <<"unshift">>
    /\ herr = "none"
    /\ d0 = <<"a", "b", "c">>
    /\ e = 0 - 2
    /\ d = <<"c", "a", "b">>

\* C8: for a non-empty list d and an integer e, throttling_swap(d, e)
\* exchanges positions 0 and throttling_mod_func(d, e), leaves the other
\* positions and the length alone, and applied twice restores d.
C8_ThrottlingSwapExchanges ==
    /\ (calls = <<"swap">> /\ herr = "none") =>
           LET n == Len(d0)
               k == ((e % n) + n) % n
           IN  /\ Len(d) = n
               /\ PyAt(d, 0) = PyAt(d0, k)
               /\ PyAt(d, k) = PyAt(d0, 0)
               /\ \A ix \in 0..(n - 1) :
                      (ix # 0 /\ ix # k) => PyAt(d, ix) = PyAt(d0, ix)
    /\ (calls = <<"swap", "swap">> /\ herr = "none") => d = d0

C8_Witness ==
    /\ calls = <<"swap", "swap">>
    /\ herr = "none"
    /\ d0 = <<"a", "b", "c">>
    /\ e = 0 - 1
    /\ d = d0

-----------------------------------------------------------------------------
(* cipher.py: throttling_cipher_function(d, e) *)

\* h = list('ABC...XYZabc...xyz0123456789-_')
h ==
    <<"A", "B", "C", "D", "E", "F", "G", "H",
      "I", "J", "K", "L", "M", "N", "O", "P",
      "Q", "R", "S", "T", "U", "V", "W", "X",
      "Y", "Z", "a", "b", "c", "d", "e", "f",
      "g", "h", "i", "j", "k", "l", "m", "n",
      "o", "p", "q", "r", "s", "t", "u", "v",
      "w", "x", "y", "z", "0", "1", "2", "3",
      "4", "5", "6", "7", "8", "9", "-", "_">>

HSymbols == {h[k] : k \in 1..Len(h)}

\* h.index(c) of a symbol of h
HIndex(c) == (CHOOSE k \in 1..Len(h) : h[k] = c) - 1

\* a bracket value computed with f never decremented: not the code
bracket_val_fixed_f(l, key, mm, ff) ==
    PyMod(HIndex(l) - HIndex(key) + mm - 32 + 96, Len(h))

\* bracket_val = (h.index(l) - h.index(this[m]) + m - 32 + f) % len(h)
bracket_val(l, key, mm, ff) ==
    PyMod(HIndex(l) - HIndex(key) + mm - 32 + ff, Len(h))

\* the symbols the inputs are drawn from: positions 0, 1, 32 and 63 of h
\* and one symbol outside h
CipherSample == {"A", "B", "g", "_", "!"}

InitCipherFn ==
    /\ cd0 \in SeqsUpTo(CipherSample, MaxCipherLen)
    /\ cd = cd0
    /\ ce \in SeqsUpTo(CipherSample, MaxKeyLen)
    /\ this = <<>>
    /\ f = 0
    /\ m = 0
    /\ copied_list = <<>>
    /\ cpc = "start"
    /\ cerr = "none"
    /\ TIdle
    /\ HIdle
    /\ PIdle
    /\ MIdle

\* f = 96; this = list(e); copied_list = d.copy()
CipherStart ==
    /\ cpc = "start"
    /\ f' = 96
    /\ this' = ce
    /\ copied_list' = cd
    /\ m' = 0
    /\ cpc' = "loop"
    /\ UNCHANGED <<cd0, cd, ce, cerr, tvars, hvars, pvars, mvars>>

\* one iteration of `for m, l in enumerate(copied_list)`; h.index raises
\* ValueError on a symbol outside h and this[m] raises IndexError past
\* the end of the key stream
CipherIter ==
    /\ cpc = "loop"
    /\ m < Len(copied_list)
    /\ LET l == PyAt(copied_list, m)
       IN  IF l \notin HSymbols
              THEN /\ cerr' = "ValueError"
                   /\ cpc' = "error"
                   /\ UNCHANGED <<cd, this, f, m>>
           ELSE IF m >= Len(this)
              THEN /\ cerr' = "IndexError"
                   /\ cpc' = "error"
                   /\ UNCHANGED <<cd, this, f, m>>
           ELSE IF PyAt(this, m) \notin HSymbols
              THEN /\ cerr' = "ValueError"
                   /\ cpc' = "error"
                   /\ UNCHANGED <<cd, this, f, m>>
           ELSE LET bv == bracket_val(l, PyAt(this, m), m, f)
                IN  /\ this' = Append(this, PyAt(h, bv))
                    /\ cd' = [cd EXCEPT ![m + 1] = PyAt(h, bv)]
                    /\ f' = f - 1
                    /\ m' = m + 1
                    /\ UNCHANGED <<cpc, cerr>>
    /\ UNCHANGED <<cd0, ce, copied_list, tvars, hvars, pvars, mvars>>

\* the loop is exhausted and the function returns
CipherReturn ==
    /\ cpc = "loop"
    /\ m = Len(copied_list)
    /\ cpc' = "done"
    /\ UNCHANGED <<cd0, cd, ce, this, f, m, copied_list, cerr, tvars, hvars, pvars, mvars>>

NextCipherFn == CipherStart \/ CipherIter \/ CipherReturn

SpecCipherFn == InitCipherFn /\ [][NextCipherFn]_vars

-----------------------------------------------------------------------------
(* Claim about throttling_cipher_function, checked under SpecCipherFn *)

AllIn(sq, S) == \A k \in 1..Len(sq) : sq[k] \in S

\* the key stream of the claim: e followed by the outputs produced
KeyStream(j) ==
    IF j < Len(ce) THEN PyAt(ce, j) ELSE PyAt(cd, j - Len(ce))

\* C9: for d over the 64 symbols of h and a non-empty key e over h, each
\* d[j] is replaced by h[(index(old d[j]) - index(K[j]) + j - 32 + f_j)
\* mod 64] with f_j = 96 - j, where K is e followed by the outputs already
\* produced; len(d) is unchanged, every output is in h, and K[j] is
\* defined whenever position j is processed.
C9_CipherFunction ==
    (AllIn(cd0, HSymbols) /\ ce # <<>> /\ AllIn(ce, HSymbols)) =>
        /\ cerr = "none"
        /\ Len(cd) = Len(cd0)
        /\ cpc \in {"loop", "done"} =>
               /\ m <= Len(cd0)
               /\ Len(this) = Len(ce) + m
               /\ m < Len(this)
               /\ f = 96 - m
               /\ cpc = "done" => m = Len(cd0)
               /\ \A j \in 0..(m - 1) :
                      /\ PyAt(cd, j) \in HSymbols
                      /\ j >= Len(ce) => j - Len(ce) \in 0..(j - 1)
                      /\ PyAt(cd, j) =
                             PyAt(h, (HIndex(PyAt(cd0, j))
                                        - HIndex(KeyStream(j))
                                        + j - 32 + (96 - j)) % 64)
               /\ \A j \in m..(Len(cd0) - 1) : PyAt(cd, j) = PyAt(cd0, j)

C9_Witness ==
    /\ cpc = "done"
    /\ cd0 = <<"B", "g", "_">>
    /\ ce = <<"B">>
    /\ cd = <<"A", "g", "f">>

-----------------------------------------------------------------------------
(* parser.py: find_object_from_startpoint(html, start_point) *)

\* the characters texts are drawn from: the four delimiters, the quote
\* and the backslash (outside a string the backslash is an ordinary
\* character, inside a string the delimiters are)
TextChars == {"{", "}", "[", "]", "\"", "\\"}

\* the extraction example: {"a":1,"b":[1,2,"x}y"]} trailing
ExampleObject ==
    <<"{", "\"", "a", "\"", ":", "1", ",", "\"", "b", "\"", ":", "[",
      "1", ",", "2", ",", "\"", "x", "}", "y", "\"", "]", "}">>
ExampleText == ExampleObject \o <<" ", "t", "r", "a", "i", "l", "i", "n", "g">>

\* an object whose string holds an escaped quote: {"\"}"}
EscapedQuoteText == <<"{", "\"", "\\", "\"", "}", "\"", "}">>

\* an object whose string ends with an escaped backslash, and one more
\* closer: {"\\"}}
EscapedBackslashText == <<"{", "\"", "\\", "\\", "\"", "}", "}">>

\* the characters the start point may stand on: ['{', '[']
StartChars == {"{", "["}

\* context_closers = {'{': '}', '[': ']', '"': '"'}
context_closers(c) ==
    IF c = "{" THEN "}" ELSE IF c = "[" THEN "]" ELSE "\""

\* openers that do not include the quote, so strings are not tracked:
\* not the code
ContextOpenersNoQuote == {"{", "["}

\* context_closers.keys()
ContextOpeners == {"{", "[", "\""}

\* inside a string every character advances the scan by one: not the code
StringStepNoEscape(curr_char) == 1

\* inside a string a backslash does not advance the scan: not the code
StringStepStuck(curr_char) == IF curr_char = "\\" THEN 0 ELSE 1

\* how far the scan advances on a character of a string that is not the
\* closing quote: if curr_char == '\\': i += 2 ... otherwise i += 1
StringStep(curr_char) == IF curr_char = "\\" THEN 2 ELSE 1

InitParser ==
    /\ html_arg \in SeqsUpTo(TextChars, MaxTextLen)
                      \cup {ExampleText, EscapedQuoteText,
                            EscapedBackslashText}
    /\ start_point \in 0..MaxStart
    /\ html = <<>>
    /\ stack = <<>>
    /\ i = 0
    /\ full_obj = <<>>
    /\ ppc = "start"
    /\ perr = "none"
    /\ TIdle
    /\ HIdle
    /\ CIdle
    /\ MIdle

\* html = html[start_point:]; html[0] raises IndexError on an empty
\* remainder; a first character other than '{' or '[' raises
\* HTMLParseError; otherwise stack = [html[0]], i = 1
ParseStart ==
    /\ ppc = "start"
    /\ html' = PyFrom(html_arg, start_point)
    /\ IF Len(html') = 0
          THEN /\ perr' = "IndexError"
               /\ ppc' = "error"
               /\ UNCHANGED <<stack, i>>
       ELSE IF PyAt(html', 0) \notin StartChars
          THEN /\ perr' = "HTMLParseError"
               /\ ppc' = "error"
               /\ UNCHANGED <<stack, i>>
       ELSE /\ stack' = <<PyAt(html', 0)>>
            /\ i' = 1
            /\ ppc' = "loop"
            /\ UNCHANGED perr
    /\ UNCHANGED <<html_arg, start_point, full_obj, tvars, hvars, cvars, mvars>>

\* one iteration of `while i < len(html)` that does not break
ParseIter ==
    /\ ppc = "loop"
    /\ i < Len(html)
    /\ Len(stack) # 0
    /\ LET curr_char == PyAt(html, i)
           curr_context == stack[Len(stack)]
       IN  IF curr_char = context_closers(curr_context)
              THEN /\ stack' = SubSeq(stack, 1, Len(stack) - 1)
                   /\ i' = i + 1
           ELSE IF curr_context = "\""
              THEN /\ i' = i + StringStep(curr_char)
                   /\ UNCHANGED stack
           ELSE /\ stack' = IF curr_char \in ContextOpeners
                               THEN Append(stack, curr_char)
                               ELSE stack
                /\ i' = i + 1
    /\ UNCHANGED <<html_arg, start_point, html, full_obj, ppc, perr,
                   tvars, hvars, cvars, mvars>>

\* the loop ends and an opener that was never closed is an error: not
\* the code
ParseReturnStrict ==
    /\ ppc = "loop"
    /\ ~(i < Len(html) /\ Len(stack) # 0)
    /\ IF Len(stack) # 0
          THEN /\ perr' = "HTMLParseError"
               /\ ppc' = "error"
               /\ UNCHANGED full_obj
          ELSE /\ full_obj' = PyTo(html, i)
               /\ ppc' = "done"
               /\ UNCHANGED perr
    /\ UNCHANGED <<html_arg, start_point, html, stack, i,
                   tvars, hvars, cvars, mvars>>

\* the loop ends (condition false, or break on an empty stack):
\* full_obj = html[:i]; return full_obj
ParseReturn ==
    /\ ppc = "loop"
    /\ ~(i < Len(html) /\ Len(stack) # 0)
    /\ full_obj' = PyTo(html, i)
    /\ ppc' = "done"
    /\ UNCHANGED <<html_arg, start_point, html, stack, i, perr,
                   tvars, hvars, cvars, mvars>>

NextParser == ParseStart \/ ParseIter \/ ParseReturn

SpecParser == InitParser /\ [][NextParser]_vars

\* the function runs on one thread and is never suspended: whenever it
\* has a next statement it executes it
SpecParserFair == SpecParser /\ WF_vars(NextParser)

-----------------------------------------------------------------------------
(* Claim about the object extractor, checked under SpecParser *)

\* The bracket structure of a text, by recursive descent and without a
\* stack: positions are 1-based, 0 means "not closed".
RECURSIVE StringEnd(_, _), ItemsEnd(_, _, _)

\* the position of the quote closing a string whose content starts at q
StringEnd(t, q) ==
    IF q > Len(t) THEN 0
    ELSE IF t[q] = "\"" THEN q
    ELSE IF t[q] = "\\" THEN StringEnd(t, q + 2)
    ELSE StringEnd(t, q + 1)

\* the position of the closer cl of an object whose content starts at q
ItemsEnd(t, q, cl) ==
    IF q > Len(t) THEN 0
    ELSE IF t[q] = cl THEN q
    ELSE IF t[q] = "\""
        THEN LET r == StringEnd(t, q + 1)
             IN  IF r = 0 THEN 0 ELSE ItemsEnd(t, r + 1, cl)
    ELSE IF t[q] \in {"{", "["}
        THEN LET r == ItemsEnd(t, q + 1, IF t[q] = "{" THEN "}" ELSE "]")
             IN  IF r = 0 THEN 0 ELSE ItemsEnd(t, r + 1, cl)
    ELSE ItemsEnd(t, q + 1, cl)

\* the position in t of the closer matching the opener at position q
MatchingCloser(t, q) ==
    ItemsEnd(t, q + 1, IF t[q] = "{" THEN "}" ELSE "]")

\* start_point stands on '{' or '['
OnOpener ==
    /\ start_point < Len(html_arg)
    /\ PyAt(html_arg, start_point) \in {"{", "["}

\* C10: when the character at start_offset is '{' or '[' and that opener
\* is closed, the result is exactly the span from start_offset up to and
\* including its matching closer; delimiters inside a double-quoted
\* string do not count (the example text yields the example object).
C10_ExtractsMatchingSpan ==
    /\ (OnOpener /\ MatchingCloser(html_arg, start_point + 1) # 0) =>
           /\ perr = "none"
           /\ ppc = "done" =>
                  full_obj = SubSeq(html_arg, start_point + 1,
                                    MatchingCloser(html_arg, start_point + 1))
    /\ (html_arg = ExampleText /\ start_point = 0) =>
           /\ perr = "none"
           /\ ppc = "done" => full_obj = ExampleObject

C10_Witness ==
    /\ html_arg = ExampleText
    /\ start_point = 0
    /\ ppc = "done"
    /\ full_obj = ExampleObject

\* C11: whenever start_offset does not stand on '{' or '[' (another
\* character there, or start_offset at or beyond the end of the text),
\* find_object_from_startpoint fails with HTMLParseError and with no other
\* exception type.
C11_BadStartIsHTMLParseError ==
    (~OnOpener /\ ppc # "start") =>
        /\ ppc = "error"
        /\ perr = "HTMLParseError"

-----------------------------------------------------------------------------
(* cipher.py: get_initial_function_name(js) *)

\* The twelve function_patterns, each by the number of its capturing
\* groups and the number of its named group `sig`.  Only the fifth,
\* (["\'])signature\1\s*,\s*(?P<sig>[a-zA-Z0-9$]+)\( , has a group
\* before `sig`.
function_patterns ==
    <<[groups |-> 1, sig |-> 1], [groups |-> 1, sig |-> 1],
      [groups |-> 1, sig |-> 1], [groups |-> 1, sig |-> 1],
      [groups |-> 2, sig |-> 2], [groups |-> 1, sig |-> 1],
      [groups |-> 1, sig |-> 1], [groups |-> 1, sig |-> 1],
      [groups |-> 1, sig |-> 1], [groups |-> 1, sig |-> 1],
      [groups |-> 1, sig |-> 1], [groups |-> 1, sig |-> 1]>>

NPatterns == Len(function_patterns)

\* the function names scripts are drawn with, and the quote the fifth
\* pattern captures first
FunctionNames == {<<"A", "b">>, <<"C", "d">>}
Quote == <<"\"">>

\* the groups of a match of pattern k whose `sig` group is nm
GroupsOf(k, nm) ==
    [g \in 1..function_patterns[k].groups |->
        IF g = function_patterns[k].sig THEN nm ELSE Quote]

\* the search results of the scripts drawn: at most MaxMatching patterns
\* match; the last two patterns are the same text and match alike
SearchInputs ==
    UNION {{[k \in 1..NPatterns |->
                IF k \in S THEN GroupsOf(k, nm[k]) ELSE <<>>] :
               nm \in {n \in [S -> FunctionNames] :
                          (11 \in S) => n[11] = n[12]}} :
           S \in {T \in SUBSET (1..NPatterns) :
                     /\ Cardinality(T \ {12}) <= MaxMatching
                     /\ (11 \in T) = (12 \in T)}}

\* an exception whose two fields are stored the wrong way round: not the
\* code
RegexMatchErrorSwapped(c, p) ==
    [type |-> "RegexMatchError", caller |-> p, pattern |-> c]

\* exceptions.py: RegexMatchError(caller, pattern) keeps both arguments
RegexMatchError(c, p) ==
    [type |-> "RegexMatchError", caller |-> c, pattern |-> p]

Raised(t) == [type |-> t, caller |-> "", pattern |-> ""]

InitInitialName ==
    /\ call = "get_initial_function_name"
    /\ searches \in SearchInputs
    /\ pat = 1
    /\ function_match = <<>>
    /\ array = <<>>
    /\ def_match = FALSE
    /\ body = NoBody
    /\ result = <<>>
    /\ exc = NoExc
    /\ mpc = "loop"
    /\ RIdle

\* one iteration of `for pattern in function_patterns`:
\* if function_match: return function_match.group(1)
InitialNameTry ==
    /\ call = "get_initial_function_name"
    /\ mpc = "loop"
    /\ pat <= NPatterns
    /\ IF searches[pat] # <<>>
          THEN /\ result' = searches[pat][1]
               /\ mpc' = "done"
               /\ UNCHANGED pat
          ELSE /\ pat' = pat + 1
               /\ UNCHANGED <<result, mpc>>
    /\ UNCHANGED <<call, searches, function_match, array, def_match, body,
                   exc, tvars, hvars, cvars, pvars, avars, xvars, rvars>>

\* the loop is exhausted:
\* raise RegexMatchError(caller="get_initial_function_name",
\*                       pattern="multiple")
InitialNameRaise ==
    /\ call = "get_initial_function_name"
    /\ mpc = "loop"
    /\ pat > NPatterns
    /\ exc' = RegexMatchError("get_initial_function_name", "multiple")
    /\ mpc' = "error"
    /\ UNCHANGED <<call, searches, pat, function_match, array, def_match,
                   body, result, tvars, hvars, cvars, pvars, avars, xvars, rvars>>

-----------------------------------------------------------------------------
(* Python string methods, on sequences of characters *)

RECURSIVE LStrip(_, _), PySplit(_, _), PyInt(_), Without(_, _)

\* s.lstrip(chars)
LStrip(s, chars) ==
    IF s # <<>> /\ s[1] \in chars THEN LStrip(Tail(s), chars) ELSE s

\* s.strip(chars)
PyStrip(s, chars) ==
    PyReversed(LStrip(PyReversed(LStrip(s, chars)), chars))

\* the characters str.strip() removes by default, as far as texts here
\* contain them
Whitespace == {" ", "\n"}

\* s.split(c) for a one-character separator c
PySplit(s, c) ==
    IF \A k \in 1..Len(s) : s[k] # c
        THEN <<s>>
        ELSE LET k == CHOOSE j \in 1..Len(s) :
                          s[j] = c /\ \A l \in 1..(j - 1) : s[l] # c
             IN  <<SubSeq(s, 1, k - 1)>>
                     \o PySplit(SubSeq(s, k + 1, Len(s)), c)

Digits == <<"0", "1", "2", "3", "4", "5", "6", "7", "8", "9">>

\* int(s) of a non-empty string of decimal digits
PyInt(s) ==
    LET last == (CHOOSE v \in 1..10 : Digits[v] = s[Len(s)]) - 1
    IN  IF Len(s) = 1 THEN last
        ELSE 10 * PyInt(SubSeq(s, 1, Len(s) - 1)) + last

\* "".join(s.split(c)): s without its occurrences of c
Without(s, c) ==
    IF s = <<>> THEN <<>>
    ELSE IF s[1] = c THEN Without(Tail(s), c)
    ELSE <<s[1]>> \o Without(Tail(s), c)

-----------------------------------------------------------------------------
(* cipher.py: get_throttling_function_name(js) and                         *)
(* get_throttling_function_code(js)                                        *)

\* the capturing groups of the throttle pattern:
\* ([a-zA-Z0-9$]+) and (\[\d+\])?
ThrottleGroups == 2

\* the outer name the scripts are drawn with, and the texts `[n]`
ThrottleName == <<"A", "b", "c">>
IdxText(n) == <<"[", Digits[n + 1], "]">>

\* the array literals scripts are drawn with:
\* [fa]   [fa,fb]   [ fa , fb ]
ArrayTexts ==
    {<<"[", "f", "a", "]">>,
     <<"[", "f", "a", ",", "f", "b", "]">>,
     <<"[", " ", "f", "a", " ", ",", " ", "f", "b", " ", "]">>}

\* the bodies find_object_from_startpoint returns: {x} and {<newline>x}
BodyTexts == {<<"{", "x", "}">>, <<"{", "\n", "x", "}">>}

\* what find_object_from_startpoint(js, match.span()[1]) can give
BodyOutcomes ==
    {[err |-> "none", text |-> t] : t \in BodyTexts}
        \cup {[err |-> x, text |-> <<>>] :
                 x \in {"HTMLParseError", "IndexError"}}

InitThrottleName ==
    /\ call \in {"get_throttling_function_name",
                 "get_throttling_function_code"}
    /\ searches = <<>>
    /\ pat = 1
    /\ function_match \in
           {<<>>} \cup {<<ThrottleName, ix>> :
                           ix \in {<<>>} \cup {IdxText(n) : n \in 0..MaxIdx}}
    /\ array \in {<<>>} \cup ArrayTexts
    /\ IF call = "get_throttling_function_code"
          THEN /\ def_match \in BOOLEAN
               /\ body \in IF def_match THEN BodyOutcomes ELSE {NoBody}
          ELSE /\ def_match = FALSE
               /\ body = NoBody
    /\ result = <<>>
    /\ exc = NoExc
    /\ mpc = "loop"
    /\ RIdle

InThrottleName ==
    call \in {"get_throttling_function_name", "get_throttling_function_code"}

\* where a return of get_throttling_function_name leads: to the caller
\* get_throttling_function_code, or out
AfterName == IF call = "get_throttling_function_code" THEN "code" ELSE "done"

\* the iteration of `for pattern in function_patterns` (one pattern)
ThrottleNameTry ==
    /\ InThrottleName
    /\ mpc = "loop"
    /\ pat = 1
    /\ IF function_match = <<>>
          THEN /\ pat' = pat + 1
               /\ UNCHANGED <<result, exc, mpc>>
       ELSE IF ThrottleGroups = 1
          THEN /\ result' = function_match[1]
               /\ mpc' = AfterName
               /\ UNCHANGED <<pat, exc>>
       ELSE LET idx == function_match[2]
            IN  IF idx = <<>> \/ array = <<>>
                   THEN /\ pat' = pat + 1
                        /\ UNCHANGED <<result, exc, mpc>>
                ELSE LET n == PyInt(PyStrip(idx, {"[", "]"}))
                         split == PySplit(PyStrip(array, {"[", "]"}), ",")
                         names == [k \in 1..Len(split) |->
                                      PyStrip(split[k], Whitespace)]
                     IN  IF n >= Len(names)
                            THEN /\ exc' = Raised("IndexError")
                                 /\ mpc' = "error"
                                 /\ UNCHANGED <<pat, result>>
                            ELSE /\ result' = PyAt(names, n)
                                 /\ mpc' = AfterName
                                 /\ UNCHANGED <<pat, exc>>
    /\ UNCHANGED <<call, searches, function_match, array, def_match, body,
                   tvars, hvars, cvars, pvars, avars, xvars, rvars>>

\* the loop is exhausted:
\* raise RegexMatchError(caller="get_throttling_function_name",
\*                       pattern="multiple")
ThrottleNameRaise ==
    /\ InThrottleName
    /\ mpc = "loop"
    /\ pat > 1
    /\ exc' = RegexMatchError("get_throttling_function_name", "multiple")
    /\ mpc' = "error"
    /\ UNCHANGED <<call, searches, pat, function_match, array, def_match,
                   body, result, tvars, hvars, cvars, pvars, avars, xvars, rvars>>

\* get_throttling_function_code after the name is resolved:
\* match = regex.search(js); match.span() raises AttributeError on None;
\* find_object_from_startpoint may raise; otherwise
\* return match.group(0) + "".join(body.split('\n'))
ThrottleCode ==
    /\ call = "get_throttling_function_code"
    /\ mpc = "code"
    /\ IF ~def_match
          THEN /\ exc' = Raised("AttributeError")
               /\ mpc' = "error"
               /\ result' = <<>>
       ELSE IF body.err # "none"
          THEN /\ exc' = Raised(body.err)
               /\ mpc' = "error"
               /\ result' = <<>>
       ELSE /\ result' = result \o <<"=", "f", "u", "n", "c", "t", "i", "o", "n", "(", "a", ")">>
                             \o Without(body.text, "\n")
            /\ mpc' = "done"
            /\ UNCHANGED exc
    /\ UNCHANGED <<call, searches, pat, function_match, array, def_match,
                   body, tvars, hvars, cvars, pvars, avars, xvars, rvars>>

-----------------------------------------------------------------------------
(* Regular expressions without quantifiers, atom by atom *)

\* the characters \w matches
WordChars ==
    {"a", "b", "c", "d", "e", "f", "g", "h", "i", "j", "k", "l", "m", "n",
     "o", "p", "q", "r", "s", "t", "u", "v", "w", "x", "y", "z", "A", "B",
     "C", "D", "E", "F", "G", "H", "I", "J", "K", "L", "M", "N", "O", "P",
     "Q", "R", "S", "T", "U", "V", "W", "X", "Y", "Z", "0", "1", "2", "3",
     "4", "5", "6", "7", "8", "9", "_"}

\* the character an escaped atom stands for
Unescaped ==
    "\\\n" :> "\n" @@ "\\%" :> "%" @@ "\\(" :> "(" @@ "\\)" :> ")" @@ "\\." :> "." @@ "\\[" :> "[" @@ "\\]" :> "]"

\* one atom of a pattern against one character
AtomMatches(atom, ch) ==
    IF atom = "\\w" THEN ch \in WordChars
    ELSE IF atom = "\\s" THEN ch \in {" ", "\n", "\t", "\r", "\f"}
    ELSE IF atom = "." THEN ch # "\n"
    ELSE IF atom \in DOMAIN Unescaped THEN ch = Unescaped[atom]
    ELSE ch = atom

\* re.search(pattern, s) finds a match
PatSearch(pattern, s) ==
    \E off \in 0..(Len(s) - Len(pattern)) :
        \A k \in 1..Len(pattern) : AtomMatches(pattern[k], s[off + k])

-----------------------------------------------------------------------------
(* cipher.py: map_functions(js_func) *)

\* r"{\w\.reverse\(\)}"
ReversePattern ==
    <<"{", "\\w", "\\.", "r", "e", "v", "e", "r", "s", "e", "\\(", "\\)",
      "}">>

\* r"{\w\.splice\(0,\w\)}"
SplicePattern ==
    <<"{", "\\w", "\\.", "s", "p", "l", "i", "c", "e", "\\(", "0", ",",
      "\\w", "\\)", "}">>

\* r"{var\s\w=\w\[0\];\w\[0\]=\w\[\w\%\w.length\];\w\[\w\]=\w}"
SwapPattern ==
    <<"{", "v", "a", "r", "\\s", "\\w", "=", "\\w", "\\[", "0", "\\]", ";",
      "\\w", "\\[", "0", "\\]", "=", "\\w", "\\[", "\\w", "\\%", "\\w",
      ".", "l", "e", "n", "g", "t", "h", "\\]", ";", "\\w", "\\[", "\\w",
      "\\]", "=", "\\w", "}">>

\* the second swap pattern as its raw string literal is meant to read,
\* r"{var\s\w=\w\[0\];\w\[0\]=\w\[\w\%\w.length\];\w\[\w\%\w.length\]=\w}":
\* not the code
SwapPattern2Joined ==
    <<"{", "v", "a", "r", "\\s", "\\w", "=", "\\w", "\\[", "0", "\\]", ";",
      "\\w", "\\[", "0", "\\]", "=", "\\w", "\\[", "\\w", "\\%", "\\w",
      ".", "l", "e", "n", "g", "t", "h", "\\]", ";", "\\w", "\\[", "\\w",
      "\\%", "\\w", ".", "l", "e", "n", "g", "t", "h", "\\]", "=", "\\w",
      "}">>

\* r"{var\s\w=\w\[0\];\w\[0\]=\w\[\w\%\w.\
\*                 length\];\w\[\w\%\w.length\]=\w}": the raw string keeps
\* the backslash, the line break and the sixteen blanks of the next line
SwapPattern2 ==
    <<"{", "v", "a", "r", "\\s", "\\w", "=", "\\w", "\\[", "0", "\\]", ";",
      "\\w", "\\[", "0", "\\]", "=", "\\w", "\\[", "\\w", "\\%", "\\w",
      ".", "\\\n", " ", " ", " ", " ", " ", " ", " ", " ", " ", " ", " ",
      " ", " ", " ", " ", " ", "l", "e", "n", "g", "t", "h", "\\]", ";",
      "\\w", "\\[", "\\w", "\\%", "\\w", ".", "l", "e", "n", "g", "t", "h",
      "\\]", "=", "\\w", "}">>

\* the (pattern, fn) pairs of `mapper`, in order
FunctionShapes ==
    <<[pattern |-> ReversePattern, fn |-> "reverse"],
      [pattern |-> SplicePattern, fn |-> "splice"],
      [pattern |-> SwapPattern, fn |-> "swap"],
      [pattern |-> SwapPattern2, fn |-> "swap"]>>

\* for pattern, fn in mapper: if re.search(pattern, js_func): return fn;
\* "RegexMatchError" stands for the raise after the loop
map_functions(text) ==
    IF \E k \in 1..Len(FunctionShapes) :
           PatSearch(FunctionShapes[k].pattern, text)
        THEN LET k == CHOOSE j \in 1..Len(FunctionShapes) :
                          /\ PatSearch(FunctionShapes[j].pattern, text)
                          /\ \A l \in 1..(j - 1) :
                                 ~PatSearch(FunctionShapes[l].pattern, text)
             IN  FunctionShapes[k].fn
        ELSE "RegexMatchError"

-----------------------------------------------------------------------------
(* cipher.py: get_transform_object(js, var) and get_transform_map(js, var) *)

RECURSIVE PySplitSeq(_, _), Join(_, _)

\* lit occurs in s at 1-based position p
OccursAt(s, p, lt) ==
    /\ p + Len(lt) - 1 <= Len(s)
    /\ \A k \in 1..Len(lt) : s[p + k - 1] = lt[k]

\* s.split(sep) for a non-empty separator string
PySplitSeq(s, sep) ==
    IF \A p \in 1..Len(s) : ~OccursAt(s, p, sep)
        THEN <<s>>
        ELSE LET p == CHOOSE j \in 1..Len(s) :
                          /\ OccursAt(s, j, sep)
                          /\ \A l \in 1..(j - 1) : ~OccursAt(s, l, sep)
             IN  <<SubSeq(s, 1, p - 1)>>
                     \o PySplitSeq(SubSeq(s, p + Len(sep), Len(s)), sep)

\* s.split(":", 1)
SplitColonOnce(s) ==
    IF \A p \in 1..Len(s) : s[p] # ":"
        THEN <<s>>
        ELSE LET p == CHOOSE j \in 1..Len(s) :
                          s[j] = ":" /\ \A l \in 1..(j - 1) : s[l] # ":"
             IN  <<SubSeq(s, 1, p - 1), SubSeq(s, p + 1, Len(s))>>

\* s.replace("\n", " ")
NewlinesToBlanks(s) == [k \in 1..Len(s) |-> IF s[k] = "\n" THEN " " ELSE s[k]]

\* the text before the group of r"var %s={(.*?)};" % re.escape(var)
ContainerOpen(v) == <<"v", "a", "r", " ">> \o v \o <<"=", "{">>
ContainerClose == <<"}", ";">>

\* the 1-based start positions of the matches of that pattern (DOTALL)
ContainerStarts(text, v) ==
    {p \in 1..Len(text) :
        /\ OccursAt(text, p, ContainerOpen(v))
        /\ \E c \in (p + Len(ContainerOpen(v)))..Len(text) :
               OccursAt(text, c, ContainerClose)}

\* group 1 of the leftmost match: the shortest text up to a "};"
ContainerGroup(text, v) ==
    LET p == CHOOSE j \in ContainerStarts(text, v) :
                 \A l \in ContainerStarts(text, v) : j <= l
        from == p + Len(ContainerOpen(v))
        c == CHOOSE j \in from..Len(text) :
                 /\ OccursAt(text, j, ContainerClose)
                 /\ \A l \in from..(j - 1) : ~OccursAt(text, l, ContainerClose)
    IN  SubSeq(text, from, c - 1)

\* an object literal that is split at every comma: not the code
get_transform_object_any_comma(text, v) ==
    [k \in 1..Len(PySplitSeq(NewlinesToBlanks(ContainerGroup(text, v)),
                              <<",">>)) |->
        LStrip(PySplitSeq(NewlinesToBlanks(ContainerGroup(text, v)),
                          <<",">>)[k], {" "})]

\* transform_match.group(1).replace("\n", " ").split(", ")
get_transform_object(text, v) ==
    PySplitSeq(NewlinesToBlanks(ContainerGroup(text, v)), <<",", " ">>)

\* the function texts scripts are drawn with
ReverseText ==
    <<"f", "u", "n", "c", "t", "i", "o", "n", "(", "a", ")", "{", "a", ".",
      "r", "e", "v", "e", "r", "s", "e", "(", ")", "}">>
SpliceText ==
    <<"f", "u", "n", "c", "t", "i", "o", "n", "(", "a", ",", "b", ")", "{",
      "a", ".", "s", "p", "l", "i", "c", "e", "(", "0", ",", "b", ")", "}">>
SwapText ==
    <<"f", "u", "n", "c", "t", "i", "o", "n", "(", "a", ",", "b", ")", "{",
      "v", "a", "r", " ", "c", "=", "a", "[", "0", "]", ";", "a", "[", "0",
      "]", "=", "a", "[", "b", "%", "a", ".", "l", "e", "n", "g", "t", "h",
      "]", ";", "a", "[", "b", "]", "=", "c", "}">>
SwapText2 ==
    <<"f", "u", "n", "c", "t", "i", "o", "n", "(", "a", ",", "b", ")", "{",
      "v", "a", "r", " ", "c", "=", "a", "[", "0", "]", ";", "a", "[", "0",
      "]", "=", "a", "[", "b", "%", "a", ".", "l", "e", "n", "g", "t", "h",
      "]", ";", "a", "[", "b", "%", "a", ".", "l", "e", "n", "g", "t", "h",
      "]", "=", "c", "}">>
NoShapeText ==
    <<"f", "u", "n", "c", "t", "i", "o", "n", "(", "a", ")", "{", "}">>

\* the entries object literals are drawn with, and what each is meant
\* to resolve to
Entries ==
    {[name |-> <<"A", "B">>, text |-> ReverseText, fn |-> "reverse"],
     [name |-> <<"C", "D">>, text |-> SpliceText, fn |-> "splice"],
     [name |-> <<"E", "F">>, text |-> SwapText, fn |-> "swap"],
     [name |-> <<"G", "H">>, text |-> SwapText2, fn |-> "swap"]}

EntryText(en) == en.name \o <<":">> \o en.text

\* what separates two entries: `,`  `, `  `,<newline>`
Separators == {<<",">>, <<",", " ">>, <<",", "\n">>}

Join(texts, sep) ==
    IF texts = <<>> THEN <<>>
    ELSE IF Len(texts) = 1 THEN texts[1]
    ELSE texts[1] \o sep \o Join(Tail(texts), sep)

\* var <v>={<entries>};
Script(v, ens, sep) ==
    ContainerOpen(v)
        \o Join([k \in 1..Len(ens) |-> EntryText(ens[k])], sep)
        \o ContainerClose

\* the script of the round-trip example
ExampleScript ==
    Script(<<"X">>,
           <<[name |-> <<"A", "B">>, text |-> ReverseText, fn |-> "reverse"],
             [name |-> <<"C", "D">>, text |-> SpliceText, fn |-> "splice"]>>,
           <<",">>)

InitTransformMap ==
    /\ call = "get_transform_map"
    /\ js \in {Script(v, ens, sep) :
                  v \in {<<"X">>, <<"Y">>},
                  ens \in SeqsUpTo(Entries, MaxEntries),
                  sep \in Separators}
    /\ var = <<"X">>
    /\ transform_object = <<>>
    /\ obj = 0
    /\ mapper = <<>>
    /\ js_func = <<>>
    /\ fn = ""
    /\ mpc = "start"

InitMapFunctions ==
    /\ call = "map_functions"
    /\ js_func \in {ReverseText, SpliceText, SwapText, SwapText2, NoShapeText}
    /\ js = <<>>
    /\ var = <<>>
    /\ transform_object = <<>>
    /\ obj = 0
    /\ mapper = <<>>
    /\ fn = ""
    /\ mpc = "start"

\* the variables of the name functions, unused by the resolver
NamesUnused ==
    /\ searches = <<>>
    /\ pat = 0
    /\ function_match = <<>>
    /\ array = <<>>
    /\ def_match = FALSE
    /\ body = NoBody
    /\ result = <<>>
    /\ exc = NoExc

\* transform_object = get_transform_object(js, var), which raises
\* RegexMatchError(caller="get_transform_object", pattern=pattern) when
\* the container is not found; mapper = {}
GetTransformObject ==
    /\ call = "get_transform_map"
    /\ mpc = "start"
    /\ IF ContainerStarts(js, var) = {}
          THEN /\ exc' = RegexMatchError("get_transform_object",
                                         "var X={(.*?)};")
               /\ mpc' = "error"
               /\ UNCHANGED <<transform_object, obj, mapper>>
          ELSE /\ transform_object' = get_transform_object(js, var)
               /\ obj' = 1
               /\ mapper' = <<>>
               /\ mpc' = "loop"
               /\ UNCHANGED exc
    /\ UNCHANGED <<call, searches, pat, function_match, array, def_match,
                   body, result, js, var, js_func, fn,
                   tvars, hvars, cvars, pvars, avars, xvars>>

\* one iteration of `for obj in transform_object`:
\* name, function = obj.split(":", 1)  (ValueError with no colon);
\* fn = map_functions(function); mapper[name] = fn
MapEntry ==
    /\ call = "get_transform_map"
    /\ mpc = "loop"
    /\ obj <= Len(transform_object)
    /\ LET parts == SplitColonOnce(transform_object[obj])
       IN  IF Len(parts) < 2
              THEN /\ exc' = Raised("ValueError")
                   /\ mpc' = "error"
                   /\ UNCHANGED <<obj, mapper, fn>>
           ELSE IF map_functions(parts[2]) = "RegexMatchError"
              THEN /\ exc' = RegexMatchError("map_functions", "multiple")
                   /\ mpc' = "error"
                   /\ UNCHANGED <<obj, mapper, fn>>
           ELSE /\ fn' = map_functions(parts[2])
                /\ mapper' = [nm \in DOMAIN mapper \cup {parts[1]} |->
                                 IF nm = parts[1] THEN fn' ELSE mapper[nm]]
                /\ obj' = obj + 1
                /\ UNCHANGED <<exc, mpc>>
    /\ UNCHANGED <<call, searches, pat, function_match, array, def_match,
                   body, result, js, var, transform_object, js_func,
                   tvars, hvars, cvars, pvars, avars, xvars>>

\* return mapper
MapReturn ==
    /\ call = "get_transform_map"
    /\ mpc = "loop"
    /\ obj > Len(transform_object)
    /\ mpc' = "done"
    /\ UNCHANGED <<call, searches, pat, function_match, array, def_match,
                   body, result, exc, rvars, tvars, hvars, cvars, pvars, avars, xvars>>

\* map_functions(js_func) called on its own
MapFunctionsCall ==
    /\ call = "map_functions"
    /\ mpc = "start"
    /\ IF map_functions(js_func) = "RegexMatchError"
          THEN /\ exc' = RegexMatchError("map_functions", "multiple")
               /\ mpc' = "error"
               /\ UNCHANGED fn
          ELSE /\ fn' = map_functions(js_func)
               /\ mpc' = "done"
               /\ UNCHANGED exc
    /\ UNCHANGED <<call, searches, pat, function_match, array, def_match,
                   body, result, js, var, transform_object, obj, mapper,
                   js_func, tvars, hvars, cvars, pvars, avars, xvars>>

-----------------------------------------------------------------------------
(* The pattern matchers and the resolver together *)

InitExtract ==
    /\ \/ InitInitialName
       \/ InitThrottleName
       \/ (InitTransformMap /\ NamesUnused)
       \/ (InitMapFunctions /\ NamesUnused)
    /\ TIdle
    /\ HIdle
    /\ CIdle
    /\ PIdle
    /\ AIdle
    /\ XIdle

NextExtract ==
    \/ InitialNameTry
    \/ InitialNameRaise
    \/ ThrottleNameTry
    \/ ThrottleNameRaise
    \/ ThrottleCode
    \/ GetTransformObject
    \/ MapEntry
    \/ MapReturn
    \/ MapFunctionsCall

SpecExtract == InitExtract /\ [][NextExtract]_vars

-----------------------------------------------------------------------------
(* Claims about the pattern matchers and the resolver, checked under       *)
(* SpecExtract                                                             *)

\* the first pattern, in list order, that matches the script
FirstMatching ==
    CHOOSE k \in 1..NPatterns :
        searches[k] # <<>> /\ \A l \in 1..(k - 1) : searches[l] = <<>>

\* C12: get_initial_function_name returns the text captured by the group
\* `sig` of the first pattern, in list order, that matches the script,
\* whichever pattern that is and whatever later patterns capture.
C12_ReturnsSigOfFirstMatch ==
    (call = "get_initial_function_name" /\ mpc = "done") =>
        result = searches[FirstMatching][function_patterns[FirstMatching].sig]

\* the elements of the array literals drawn
ElementsOf ==
    <<"[", "f", "a", "]">> :> <<<<"f", "a">>>>
    @@ <<"[", "f", "a", ",", "f", "b", "]">> :> <<<<"f", "a">>, <<"f", "b">>>>
    @@ <<"[", " ", "f", "a", " ", ",", " ", "f", "b", " ", "]">> :> <<<<"f", "a">>, <<"f", "b">>>>

\* the index written in the text `[n]`
IndexOf(txt) == CHOOSE n \in 0..MaxIdx : IdxText(n) = txt

Finished == mpc \in {"done", "error"}

\* C13: on a script matching the throttle pattern,
\* get_throttling_function_name returns the captured name when no
\* bracketed index follows it, and with an index [i] the i-th trimmed
\* element of the script's `var <name> = [...]` array literal.
C13_ThrottleNameResolution ==
    (call = "get_throttling_function_name" /\ function_match # <<>>
        /\ Finished) =>
        IF function_match[2] = <<>>
           THEN mpc = "done" /\ result = function_match[1]
           ELSE (array # <<>>
                    /\ IndexOf(function_match[2]) < Len(ElementsOf[array])) =>
                   /\ mpc = "done"
                   /\ result = PyAt(ElementsOf[array],
                                    IndexOf(function_match[2]))

\* C14: get_transform_map gives every `name:function...` entry of the
\* container its own catalog entry whatever follows the separating
\* commas; the example script yields exactly AB -> reverse, CD -> splice.
C14_EveryEntryMapped ==
    (call = "get_transform_map" /\ Finished) =>
        \A ens \in SeqsUpTo({en \in Entries : en.text # SwapText2},
                            MaxEntries) :
            \A sep \in Separators :
                (ens # <<>> /\ js = Script(<<"X">>, ens, sep)) =>
                    /\ mpc = "done"
                    /\ DOMAIN mapper = {ens[k].name : k \in 1..Len(ens)}
                    /\ \A k \in 1..Len(ens) : mapper[ens[k].name] = ens[k].fn

\* C15: map_functions resolves both swap syntaxes (... a[b]=c and
\* ... a[b%a.length]=c) to swap, function(a){a.reverse()} to reverse and
\* function(a,b){a.splice(0,b)} to splice.
C15_ResolvesAllShapes ==
    (call = "map_functions" /\ Finished) =>
        /\ js_func = SwapText => (mpc = "done" /\ fn = "swap")
        /\ js_func = SwapText2 => (mpc = "done" /\ fn = "swap")
        /\ js_func = ReverseText => (mpc = "done" /\ fn = "reverse")
        /\ js_func = SpliceText => (mpc = "done" /\ fn = "splice")

IsMultipleError(c) ==
    /\ mpc = "error"
    /\ exc.type = "RegexMatchError"
    /\ exc.caller = c
    /\ exc.pattern = "multiple"
    /\ result = <<>>
    /\ fn = ""

\* C16: when no pattern matches, get_initial_function_name and
\* get_throttling_function_name raise RegexMatchError with their own name
\* as caller and "multiple" as pattern, and so does map_functions for a
\* text of none of its shapes; none of them returns a value.
C16_NoMatchRaises ==
    /\ (call = "get_initial_function_name"
            /\ \A k \in 1..NPatterns : searches[k] = <<>>) =>
           /\ mpc \in {"loop", "error"}
           /\ mpc = "error" => IsMultipleError("get_initial_function_name")
    /\ (call = "get_throttling_function_name" /\ function_match = <<>>) =>
           /\ mpc \in {"loop", "error"}
           /\ mpc = "error" => IsMultipleError("get_throttling_function_name")
    /\ (call = "map_functions"
            /\ js_func \notin {ReverseText, SpliceText, SwapText, SwapText2}) =>
           /\ mpc \in {"start", "error"}
           /\ mpc = "error" => IsMultipleError("map_functions")

C16_Witness ==
    /\ call = "get_initial_function_name"
    /\ \A k \in 1..NPatterns : searches[k] = <<>>
    /\ pat = NPatterns + 1
    /\ IsMultipleError("get_initial_function_name")

\* C17: a throttle index beyond the array literal, an absent array
\* literal, and a script without a `<name>=function(x)` definition for the
\* resolved name each end in RegexMatchError, never in an untyped error
\* and never in a returned value.
C17_ThrottleFailuresAreTyped ==
    (/\ call \in {"get_throttling_function_name",
                  "get_throttling_function_code"}
     /\ Finished
     /\ function_match # <<>>
     /\ function_match[2] # <<>>
     /\ \/ array = <<>>
        \/ IndexOf(function_match[2]) >= Len(ElementsOf[array])
        \/ (call = "get_throttling_function_code" /\ ~def_match)) =>
        /\ mpc = "error"
        /\ exc.type = "RegexMatchError"

-----------------------------------------------------------------------------
(* extract.py: apply_signature(stream_manifest, vid_info, js)              *)
(* urls, query strings and signatures are sequences of characters; a dict  *)
(* is a function from its keys, a dict whose order matters (query_params)  *)
(* is a sequence of <<key, value>> pairs in insertion order                *)

RECURSIVE Flatten(_), unquote(_), parse_qsl(_), FirstValues(_, _)

EmptyDict == [k \in {} |-> <<>>]
HasKey(dct, k) == k \in DOMAIN dct

\* dct[k] = v
SetKey(dct, k, v) ==
    [x \in (DOMAIN dct) \cup {k} |-> IF x = k THEN v ELSE dct[x]]

\* lt in s
Contains(s, lt) == \E p \in 1..Len(s) : OccursAt(s, p, lt)

Flatten(ss) == IF ss = <<>> THEN <<>> ELSE ss[1] \o Flatten(Tail(ss))

\* position of the first character of s from p on that is in S,
\* Len(s) + 1 when there is none
FirstIn(s, p, S) ==
    IF \E j \in p..Len(s) : s[j] \in S
        THEN CHOOSE j \in p..Len(s) :
                 s[j] \in S /\ \A l \in p..(j - 1) : s[l] \notin S
        ELSE Len(s) + 1

\* urllib.parse.urlparse(u) for a url of the form <scheme>://... without
\* `;` and `#`: the netloc ends at the first `/` or `?`, the path at the
\* first `?`
urlparse(u) ==
    LET colon == FirstIn(u, 1, {":"})
        slash == FirstIn(u, colon + 3, {"/", "?"})
        mark == FirstIn(u, slash, {"?"})
    IN  [scheme |-> SubSeq(u, 1, colon - 1),
         netloc |-> SubSeq(u, colon + 3, slash - 1),
         path |-> SubSeq(u, slash, mark - 1),
         query |-> SubSeq(u, mark + 1, Len(u))]

\* s.split("=", 1)
SplitEqualsOnce(s) ==
    IF \A p \in 1..Len(s) : s[p] # "="
        THEN <<s>>
        ELSE LET p == FirstIn(s, 1, {"="})
             IN  <<SubSeq(s, 1, p - 1), SubSeq(s, p + 1, Len(s))>>

\* s.replace("+", " ")
PlusToBlank(s) == [k \in 1..Len(s) |-> IF s[k] = "+" THEN " " ELSE s[k]]

\* the one escape the urls are drawn with
EscapedComma == <<"%", "2", "C">>

\* urllib.parse.unquote(s), for the escape %2C
unquote(s) ==
    IF s = <<>> THEN <<>>
    ELSE IF OccursAt(s, 1, EscapedComma)
        THEN <<",">> \o unquote(SubSeq(s, 4, Len(s)))
    ELSE <<s[1]>> \o unquote(Tail(s))

\* urllib.parse.quote_plus(s) over letters, digits, `.`, `_`, `-`, the
\* blank and the comma
quote_plus(s) ==
    Flatten([k \in 1..Len(s) |->
                IF s[k] = " " THEN <<"+">>
                ELSE IF s[k] = "," THEN EscapedComma
                ELSE <<s[k]>>])

\* urllib.parse.parse_qsl over the pieces between `&`: a piece without
\* `=` or with nothing after it is dropped (keep_blank_values=False)
parse_qsl(pieces) ==
    IF pieces = <<>> THEN <<>>
    ELSE LET nv == SplitEqualsOnce(pieces[1])
         IN  (IF Len(nv) = 2 /\ Len(nv[2]) > 0
                  THEN <<<<unquote(PlusToBlank(nv[1])),
                           unquote(PlusToBlank(nv[2]))>>>>
                  ELSE <<>>)
                 \o parse_qsl(Tail(pieces))

\* {k: v[0] for k, v in parse_qs(...).items()}: the first value of each
\* name, the names in the order of their first occurrence
FirstValues(pairs, seen) ==
    IF pairs = <<>> THEN <<>>
    ELSE IF pairs[1][1] \in seen THEN FirstValues(Tail(pairs), seen)
    ELSE <<pairs[1]>> \o FirstValues(Tail(pairs), seen \cup {pairs[1][1]})

\* query_params as apply_signature first builds it from a query string
parse_qs(qs) == FirstValues(parse_qsl(PySplitSeq(qs, <<"&">>)), {})

HasItem(qp, k) == \E j \in 1..Len(qp) : qp[j][1] = k
GetItem(qp, k) == qp[CHOOSE j \in 1..Len(qp) : qp[j][1] = k][2]

\* qp[k] = v
SetItem(qp, k, v) ==
    IF HasItem(qp, k)
        THEN [j \in 1..Len(qp) |-> IF qp[j][1] = k THEN <<k, v>> ELSE qp[j]]
        ELSE Append(qp, <<k, v>>)

\* urllib.parse.urlencode(qp)
urlencode(qp) ==
    Join([j \in 1..Len(qp) |->
             quote_plus(qp[j][1]) \o <<"=">> \o quote_plus(qp[j][2])],
         <<"&">>)

\* Cipher.get_signature(ciphered_signature) for a script whose transform
\* plan is [reverse, splice(1)]
get_signature(cs) == splice(reverse(cs, 0), 1)

\* Cipher.calculate_n(initial_n) for a script whose throttle program
\* reverses the array
calculate_n(initial_n) == PyReversed(initial_n)

\* the keys of query_params the code names
SigKey == <<"s", "i", "g">>
NKey == <<"n">>
RatebypassKey ==
    <<"r", "a", "t", "e", "b", "y", "p", "a", "s", "s">>

\* the words the pre-signed test looks for
SignatureWord == <<"s", "i", "g", "n", "a", "t", "u", "r", "e">>
SigParam == <<"&", "s", "i", "g", "=">>
LsigParam == <<"&", "l", "s", "i", "g", "=">>

\* "signature" in url or ("s" not in stream and ("&sig=" in url or
\* "&lsig=" in url)), without the `"s" not in stream` part
PreSignedIgnoresS(stream, u) ==
    \/ Contains(u, SignatureWord)
    \/ Contains(u, SigParam)
    \/ Contains(u, LsigParam)

\* "signature" in url or ("s" not in stream and ("&sig=" in url or
\* "&lsig=" in url))
PreSigned(stream, u) ==
    \/ Contains(u, SignatureWord)
    \/ /\ ~HasKey(stream, "s")
       /\ Contains(u, SigParam) \/ Contains(u, LsigParam)

\* the text between {parsed_url.netloc} and {parsed_url.path} in the
\* f-string: inside the string literal the backslash joins the two source
\* lines and the second line's indentation stays in the string
Continuation ==
    <<" ", " ", " ", " ", " ", " ", " ", " ", " ", " ", " ", " ">>

\* f'{parsed_url.scheme}://{parsed_url.netloc}\<newline>
\*     {parsed_url.path}?{urlencode(query_params)}'
FormatUrl(parsed_url, qp) ==
    parsed_url.scheme \o <<":", "/", "/">> \o parsed_url.netloc
        \o Continuation \o parsed_url.path \o <<"?">> \o urlencode(qp)

\* ---- the manifests apply_signature is run on ----

MaxStreams == 2    \* longest stream manifest drawn

UrlBase ==
    <<"h", "t", "t", "p", "s", ":", "/", "/", "h", ".", "c", "o",
      "/", "v", "?">>

\* only n
QueryN ==
    <<"n", "=", "a", "b">>
\* n and ratebypass
QueryBypass ==
    <<"n", "=", "a", "b", "&", "r", "a", "t", "e", "b", "y", "p",
      "a", "s", "s", "=", "y", "e", "s">>
\* ratebypass with a blank value
QueryBlankBypass ==
    <<"n", "=", "a", "b", "&", "r", "a", "t", "e", "b", "y", "p",
      "a", "s", "s", "=">>
\* neither n nor ratebypass
QueryNoN ==
    <<"x", "=", "1">>
\* a sig parameter after the first
QuerySig ==
    <<"n", "=", "a", "b", "&", "s", "i", "g", "=", "z", "z">>
\* an lsig parameter after the first
QueryLsig ==
    <<"n", "=", "a", "b", "&", "l", "s", "i", "g", "=", "z", "z">>
\* a signature parameter
QuerySignature ==
    <<"s", "i", "g", "n", "a", "t", "u", "r", "e", "=", "z", "z",
      "&", "n", "=", "a", "b">>
\* an escaped comma in n
QueryEscaped ==
    <<"n", "=", "a", "%", "2", "C", "b", "&", "r", "a", "t", "e",
      "b", "y", "p", "a", "s", "s", "=", "y", "e", "s">>
\* sig as the first parameter
QuerySigFirst ==
    <<"s", "i", "g", "=", "z", "z", "&", "n", "=", "a", "b">>

Queries ==
    {QueryN, QueryBypass, QueryBlankBypass,
     QueryNoN, QuerySig, QueryLsig,
     QuerySignature, QueryEscaped, QuerySigFirst}

Urls == {UrlBase \o q : q \in Queries}

CipheredSignatures == {<<"x", "y", "z">>}

\* stream dicts: with or without "url", with or without "s"
Streams ==
    {[k \in {"url", "s"} |-> IF k = "url" THEN u ELSE cs] :
        u \in Urls, cs \in CipheredSignatures}
    \cup {[k \in {"url"} |-> u] : u \in Urls}
    \cup {[k \in {"s"} |-> cs] : cs \in CipheredSignatures}
    \cup {EmptyDict}

\* vid_info: no playabilityStatus; one without liveStreamability; one
\* whose liveStreamability is an empty dict; one where it has content
VidInfos ==
    {EmptyDict,
     [k \in {"playabilityStatus"} |-> EmptyDict],
     [k \in {"playabilityStatus"} |->
         [l \in {"liveStreamability"} |-> EmptyDict]],
     [k \in {"playabilityStatus"} |->
         [l \in {"liveStreamability"} |->
             [x \in {"liveStreamabilityRenderer"} |-> EmptyDict]]]}
\* the state when the loop is entered, after cipher = Cipher(js=js)
InitApply ==
    /\ manifest_arg \in SeqsUpTo(Streams, MaxStreams)
    /\ stream_manifest = manifest_arg
    /\ vid_info \in VidInfos
    /\ si = 1
    /\ url = Unbound
    /\ invoked = <<>>
    /\ aexc = "none"
    /\ apc = "loop"
    /\ TIdle
    /\ HIdle
    /\ CIdle
    /\ PIdle
    /\ NIdle
    /\ RIdle
    /\ XIdle

\* the loop has a stream left
InLoop == apc = "loop" /\ si <= Len(stream_manifest)

\* stream of `for i, stream in enumerate(stream_manifest)`
ThisStream == stream_manifest[si]

\* vid_info.get("liveStreamability") is truthy: the lookup without the
\* playabilityStatus level
live_stream_top_level ==
    /\ HasKey(vid_info, "liveStreamability")
    /\ DOMAIN vid_info["liveStreamability"] # {}

\* vid_info.get("playabilityStatus", {}).get("liveStreamability") is truthy
live_stream ==
    /\ HasKey(vid_info, "playabilityStatus")
    /\ HasKey(vid_info["playabilityStatus"], "liveStreamability")
    /\ DOMAIN vid_info["playabilityStatus"]["liveStreamability"] # {}

\* the try statement ends without raising
PastTry == HasKey(ThisStream, "url") \/ ~live_stream

\* url after the try statement: on KeyError it keeps what it had
UrlAfterTry == IF HasKey(ThisStream, "url") THEN ThisStream["url"] ELSE url

Invocation(name, a) == [fn |-> name, arg |-> a]

\* except KeyError: ... raise LiveStreamError("UNKNOWN")
ApplyLiveStream ==
    /\ InLoop
    /\ ~PastTry
    /\ aexc' = "LiveStreamError"
    /\ apc' = "error"
    /\ UNCHANGED <<manifest_arg, stream_manifest, vid_info, si, url, invoked,
                   tvars, hvars, cvars, pvars, nvars, rvars, xvars>>

\* `"signature" in url` with url never assigned
ApplyUnbound ==
    /\ InLoop
    /\ PastTry
    /\ UrlAfterTry = Unbound
    /\ aexc' = "UnboundLocalError"
    /\ apc' = "error"
    /\ UNCHANGED <<manifest_arg, stream_manifest, vid_info, si, url, invoked,
                   tvars, hvars, cvars, pvars, nvars, rvars, xvars>>

\* signature found, skip decipher: continue
ApplySkip ==
    /\ InLoop
    /\ PastTry
    /\ UrlAfterTry # Unbound
    /\ PreSigned(ThisStream, UrlAfterTry)
    /\ url' = UrlAfterTry
    /\ si' = si + 1
    /\ UNCHANGED <<manifest_arg, stream_manifest, vid_info, invoked, aexc,
                   apc, tvars, hvars, cvars, pvars, nvars, rvars, xvars>>

\* the rest of the loop body: decipher the signature, rebuild the url
ApplyDecipher ==
    /\ InLoop
    /\ PastTry
    /\ UrlAfterTry # Unbound
    /\ ~PreSigned(ThisStream, UrlAfterTry)
    /\ IF ~HasKey(ThisStream, "s")
          THEN \* stream["s"]
               /\ url' = UrlAfterTry
               /\ aexc' = "KeyError"
               /\ apc' = "error"
               /\ UNCHANGED <<stream_manifest, si, invoked>>
          ELSE LET sgn == get_signature(ThisStream["s"])
                   parsed_url == urlparse(UrlAfterTry)
                   query_params ==
                       SetItem(parse_qs(parsed_url.query), SigKey, sgn)
                   got == Append(invoked,
                                 Invocation("get_signature", ThisStream["s"]))
               IN  IF HasItem(query_params, RatebypassKey)
                       THEN /\ url' = FormatUrl(parsed_url, query_params)
                            /\ stream_manifest' =
                                   [stream_manifest EXCEPT
                                       ![si] = SetKey(@, "url", url')]
                            /\ si' = si + 1
                            /\ invoked' = got
                            /\ UNCHANGED <<aexc, apc>>
                   ELSE IF ~HasItem(query_params, NKey)
                       THEN \* query_params['n']
                            /\ url' = UrlAfterTry
                            /\ invoked' = got
                            /\ aexc' = "KeyError"
                            /\ apc' = "error"
                            /\ UNCHANGED <<stream_manifest, si>>
                   ELSE LET initial_n == GetItem(query_params, NKey)
                            new_n == calculate_n(initial_n)
                        IN  /\ url' = FormatUrl(parsed_url,
                                         SetItem(query_params, NKey, new_n))
                            /\ stream_manifest' =
                                   [stream_manifest EXCEPT
                                       ![si] = SetKey(@, "url", url')]
                            /\ si' = si + 1
                            /\ invoked' =
                                   Append(got,
                                          Invocation("calculate_n", initial_n))
                            /\ UNCHANGED <<aexc, apc>>
    /\ UNCHANGED <<manifest_arg, vid_info, tvars, hvars, cvars, pvars, nvars,
                   rvars, xvars>>

\* the loop is over
ApplyReturn ==
    /\ apc = "loop"
    /\ si > Len(stream_manifest)
    /\ apc' = "done"
    /\ UNCHANGED <<manifest_arg, stream_manifest, vid_info, si, url, invoked,
                   aexc, tvars, hvars, cvars, pvars, nvars, rvars, xvars>>

NextApply ==
    \/ ApplyLiveStream
    \/ ApplyUnbound
    \/ ApplySkip
    \/ ApplyDecipher
    \/ ApplyReturn

SpecApply == InitApply /\ [][NextApply]_vars

-----------------------------------------------------------------------------
(* Claims about apply_signature, checked under SpecApply *)

\* the query string of u and its pieces between `&`
QueryOf(u) == SubSeq(u, FirstIn(u, 1, {"?"}) + 1, Len(u))
PiecesOf(u) == PySplitSeq(QueryOf(u), <<"&">>)

\* u carries a parameter called name, whatever its value
HasParam(u, name) ==
    \E k \in 1..Len(PiecesOf(u)) : SplitEqualsOnce(PiecesOf(u)[k])[1] = name

\* the value of the first parameter of u called name
ParamOf(u, name) ==
    LET k == CHOOSE j \in 1..Len(PiecesOf(u)) :
                 /\ SplitEqualsOnce(PiecesOf(u)[j])[1] = name
                 /\ \A l \in 1..(j - 1) :
                        SplitEqualsOnce(PiecesOf(u)[l])[1] # name
        nv == SplitEqualsOnce(PiecesOf(u)[k])
    IN  IF Len(nv) = 2 THEN unquote(PlusToBlank(nv[2])) ELSE <<>>

\* this step writes a deciphered url for stream si, which has a url and
\* a ciphered signature of its own
Rewrites ==
    /\ InLoop
    /\ HasKey(ThisStream, "url")
    /\ HasKey(ThisStream, "s")
    /\ stream_manifest' # stream_manifest

OwnUrl == manifest_arg[si]["url"]
WrittenUrl == stream_manifest'[si]["url"]

\* C18: the url written for a deciphered stream is the original url up to
\* and including its `?` (scheme, netloc and path with nothing added)
\* followed by an urlencoded query whose sig is the decrypted signature
C18_RewrittenUrlShape ==
    [][Rewrites =>
          LET mark == FirstIn(OwnUrl, 1, {"?"})
              qp == parse_qs(QueryOf(WrittenUrl))
          IN  /\ SubSeq(WrittenUrl, 1, mark) = SubSeq(OwnUrl, 1, mark)
              /\ QueryOf(WrittenUrl) = urlencode(qp)
              /\ HasItem(qp, SigKey)
              /\ GetItem(qp, SigKey) = get_signature(ThisStream["s"])]_vars

\* calculate_n was invoked in this step
ThrottleInvoked ==
    \E k \in (Len(invoked) + 1)..Len(invoked') :
        invoked'[k].fn = "calculate_n"

\* C19: for a deciphered stream whose url carries n, n is replaced by the
\* throttle-decrypted value exactly when the url has no ratebypass
\* parameter; with ratebypass the throttle calculation is not invoked and
\* n keeps its value
C19_ThrottleUnlessRatebypass ==
    [][(Rewrites /\ HasParam(OwnUrl, NKey)) =>
          IF HasParam(OwnUrl, RatebypassKey)
              THEN /\ ~ThrottleInvoked
                   /\ ParamOf(WrittenUrl, NKey) = ParamOf(OwnUrl, NKey)
              ELSE /\ ThrottleInvoked
                   /\ ParamOf(WrittenUrl, NKey)
                          = calculate_n(ParamOf(OwnUrl, NKey))]_vars

\* the pre-signed test in the words of the claim
SaidPreSigned ==
    \/ Contains(ThisStream["url"], SignatureWord)
    \/ /\ ~HasKey(ThisStream, "s")
       /\ \/ Contains(ThisStream["url"], SigParam)
          \/ Contains(ThisStream["url"], LsigParam)

\* the step leaves the manifest alone, invokes nothing and goes on to the
\* next stream
Skipped ==
    /\ stream_manifest' = stream_manifest
    /\ invoked' = invoked
    /\ si' = si + 1
    /\ apc' = "loop"
    /\ aexc' = "none"

\* C20: a stream with a url is skipped (entry unchanged, no decryption
\* invoked, the loop goes on) exactly when its url contains `signature`,
\* or it has no `s` and its url contains `&sig=` or `&lsig=`
C20_PreSignedSkipped ==
    [][(InLoop /\ HasKey(ThisStream, "url")) =>
          (SaidPreSigned <=> Skipped)]_vars

\* a pre-signed first stream was skipped and the second was deciphered
C20_Witness ==
    /\ apc = "done"
    /\ Len(stream_manifest) = 2
    /\ HasKey(manifest_arg[1], "url")
    /\ ~HasKey(manifest_arg[1], "s")
    /\ Contains(manifest_arg[1]["url"], LsigParam)
    /\ stream_manifest[1] = manifest_arg[1]
    /\ stream_manifest[2] # manifest_arg[2]
    /\ Len(invoked) = 2
\* vid_info says the video is a live broadcast: playabilityStatus has a
\* liveStreamability with content
SaidLive ==
    /\ "playabilityStatus" \in DOMAIN vid_info
    /\ "liveStreamability" \in DOMAIN vid_info["playabilityStatus"]
    /\ vid_info["playabilityStatus"]["liveStreamability"] # EmptyDict

C25_NoStaleUrl ==
    [][(InLoop /\ ~HasKey(ThisStream, "url")) =>
          /\ stream_manifest' = stream_manifest
          /\ invoked' = invoked]_vars
-----------------------------------------------------------------------------
(* More claims about the object extractor *)

\* the scan stands on a character inside a double-quoted string
InString ==
    /\ ppc = "loop"
    /\ i < Len(html)
    /\ Len(stack) # 0
    /\ stack[Len(stack)] = "\""

\* C24: inside a string a backslash skips exactly the one following
\* character and closes nothing, an unescaped quote closes the string; so
\* in {"\"}"} the escaped quote does not end the string and the whole
\* text is the object, while in {"\\"}} the string ends after the escaped
\* backslash and the first } closes the object
C24_BackslashEscapesOne ==
    /\ [][(InString /\ PyAt(html, i) = "\\") =>
              (i' = i + 2 /\ stack' = stack)]_vars
    /\ [][(InString /\ PyAt(html, i) = "\"") =>
              (i' = i + 1 /\ stack' = SubSeq(stack, 1, Len(stack) - 1))]_vars
    /\ []((ppc = "done" /\ html = EscapedQuoteText) =>
              full_obj = EscapedQuoteText)
    /\ []((ppc = "done" /\ html = EscapedBackslashText) =>
              full_obj = SubSeq(EscapedBackslashText, 1,
                                Len(EscapedBackslashText) - 1))

C24_Witness ==
    /\ ppc = "done"
    /\ html = EscapedBackslashText
    /\ stack = <<>>
    /\ full_obj = SubSeq(EscapedBackslashText, 1,
                         Len(EscapedBackslashText) - 1)

Terminated == ppc \in {"done", "error"}

\* C27: every call terminates; each loop iteration advances the scan
\* index by 1 or 2; the returned span is a non-empty prefix of
\* html[start_point:] that begins with the opening delimiter
C27_TerminatesWithPrefix ==
    /\ <>Terminated
    /\ [][(ppc = "loop" /\ ppc' = "loop") => i' \in {i + 1, i + 2}]_vars
    /\ [](ppc = "done" =>
              /\ Len(full_obj) >= 1
              /\ Len(full_obj) <= Len(html_arg) - start_point
              /\ \A k \in 1..Len(full_obj) :
                     full_obj[k] = html_arg[start_point + k]
              /\ full_obj[1] \in {"{", "["})

\* a scan that ended by stepping two past a backslash, beyond the end of
\* the text
C27_Witness ==
    /\ ppc = "done"
    /\ i = Len(html) + 1
    /\ Len(html) >= 3
    /\ html[Len(html)] = "\\"
    /\ full_obj = html

\* the opener at start_point has no matching closer
NeverClosed == OnOpener /\ MatchingCloser(html_arg, start_point + 1) = 0

\* C28: when the opener at start_point is never closed, no error is
\* raised, the nesting stack is still non-empty at the end and the result
\* is the whole of html[start_point:]
C28_UnclosedReturnsRemainder ==
    /\ NeverClosed => ppc # "error" /\ perr = "none"
    /\ (NeverClosed /\ ppc = "done") =>
           /\ Len(stack) # 0
           /\ full_obj = PyFrom(html_arg, start_point)
    /\ (ppc = "done" /\ Len(stack) # 0) =>
           full_obj = PyFrom(html_arg, start_point)

\* an unterminated string inside an unclosed object
C28_Witness ==
    /\ ppc = "done"
    /\ Len(stack) = 2
    /\ stack[2] = "\""
    /\ start_point = 1
    /\ full_obj = PyFrom(html_arg, 1)
-----------------------------------------------------------------------------
(* __main__.py: YouTube.js, with tube.__js__ and tube.__js_url__ of        *)
(* __init__.py; one action per statement of the property                   *)

\* the YouTube objects and the script urls their pages name
Instances == {"yt1", "yt2", "yt3"}
JsUrls == {"base_a.js", "base_b.js"}

\* request.get(url): the script text served at url
request_get(u) == [from |-> u]

\* the cache is refetched only while it is empty: not the code
UrlDiffersFromNone(y) == __js_url__ = NoUrl

\* tube.__js_url__ != self.js_url
UrlDiffers(y) == __js_url__ # _js_url[y]

InitJs ==
    /\ _js_url \in [Instances -> JsUrls]
    /\ _js = [y \in Instances |-> NoText]
    /\ __js__ = NoText
    /\ __js_url__ = NoUrl
    /\ jpc = [y \in Instances |-> "idle"]
    /\ TIdle
    /\ HIdle
    /\ CIdle
    /\ PIdle
    /\ NIdle
    /\ RIdle
    /\ AIdle
    /\ KIdle
    /\ SIdle
    /\ FIdle

\* y is not inside a read: it has made none, or its last one returned
\* or raised
Outside(y) == jpc[y] \in {"idle", "raised"}

Quiet == \A y \in Instances : Outside(y)

JsGoto(y, l) == jpc' = [jpc EXCEPT ![y] = l]

\* y.js is read while no other read is under way
JsRead(y) ==
    /\ Quiet
    /\ Outside(y)
    /\ JsGoto(y, "start")
    /\ UNCHANGED <<_js_url, _js, __js__, __js_url__, tvars, hvars, cvars,
                   pvars, nvars, rvars, avars, kvars, svars, fvars>>

\* y.js is read, whatever the other instances are doing
JsReadConcurrent(y) ==
    /\ Outside(y)
    /\ JsGoto(y, "start")
    /\ UNCHANGED <<_js_url, _js, __js__, __js_url__, tvars, hvars, cvars,
                   pvars, nvars, rvars, avars, kvars, svars, fvars>>

\* if self._js: return self._js
JsCached(y) ==
    /\ jpc[y] = "start"
    /\ _js[y] # NoText
    /\ JsGoto(y, "return")
    /\ UNCHANGED <<_js_url, _js, __js__, __js_url__, tvars, hvars, cvars,
                   pvars, nvars, rvars, avars, kvars, svars, fvars>>

\* if tube.__js_url__ != self.js_url:
JsTest(y) ==
    /\ jpc[y] = "start"
    /\ _js[y] = NoText
    /\ JsGoto(y, IF UrlDiffers(y) THEN "fetch" ELSE "load")
    /\ UNCHANGED <<_js_url, _js, __js__, __js_url__, tvars, hvars, cvars,
                   pvars, nvars, rvars, avars, kvars, svars, fvars>>

\* self._js = request.get(self.js_url)
JsFetch(y) ==
    /\ jpc[y] = "fetch"
    /\ _js' = [_js EXCEPT ![y] = request_get(_js_url[y])]
    /\ JsGoto(y, "set_js")
    /\ UNCHANGED <<_js_url, __js__, __js_url__, tvars, hvars, cvars, pvars,
                   nvars, rvars, avars, kvars, svars, fvars>>

\* request.get raises: the read ends with nothing assigned
JsFetchFails(y) ==
    /\ jpc[y] = "fetch"
    /\ JsGoto(y, "raised")
    /\ UNCHANGED <<_js_url, _js, __js__, __js_url__, tvars, hvars, cvars,
                   pvars, nvars, rvars, avars, kvars, svars, fvars>>

\* tube.__js__ = self._js
JsSetText(y) ==
    /\ jpc[y] = "set_js"
    /\ __js__' = _js[y]
    /\ JsGoto(y, "set_url")
    /\ UNCHANGED <<_js_url, _js, __js_url__, tvars, hvars, cvars, pvars,
                   nvars, rvars, avars, kvars, svars, fvars>>

\* tube.__js_url__ = self.js_url
JsSetUrl(y) ==
    /\ jpc[y] = "set_url"
    /\ __js_url__' = _js_url[y]
    /\ JsGoto(y, "return")
    /\ UNCHANGED <<_js_url, _js, __js__, tvars, hvars, cvars, pvars,
                   nvars, rvars, avars, kvars, svars, fvars>>

\* else: self._js = tube.__js__
JsLoad(y) ==
    /\ jpc[y] = "load"
    /\ _js' = [_js EXCEPT ![y] = __js__]
    /\ JsGoto(y, "return")
    /\ UNCHANGED <<_js_url, __js__, __js_url__, tvars, hvars, cvars, pvars,
                   nvars, rvars, avars, kvars, svars, fvars>>

\* return self._js
JsReturn(y) ==
    /\ jpc[y] = "return"
    /\ JsGoto(y, "idle")
    /\ UNCHANGED <<_js_url, _js, __js__, __js_url__, tvars, hvars, cvars,
                   pvars, nvars, rvars, avars, kvars, svars, fvars>>

JsStep(y) ==
    \/ JsCached(y)
    \/ JsTest(y)
    \/ JsFetch(y)
    \/ JsFetchFails(y)
    \/ JsSetText(y)
    \/ JsSetUrl(y)
    \/ JsLoad(y)
    \/ JsReturn(y)

\* reads one after the other
NextJs == \E y \in Instances : JsRead(y) \/ JsStep(y)

SpecJs == InitJs /\ [][NextJs]_vars

\* reads on several threads, their statements interleaved
NextJsConcurrent == \E y \in Instances : JsReadConcurrent(y) \/ JsStep(y)

SpecJsConcurrent == InitJs /\ [][NextJsConcurrent]_vars

-----------------------------------------------------------------------------
(* Claims about the script cache *)

\* the text an instance holds was fetched from its own js_url
OwnText(y) == _js[y] = NoText \/ _js[y].from = _js_url[y]

\* the cached text is the one fetched from the cached url
CachePaired ==
    \/ __js__ = NoText /\ __js_url__ = NoUrl
    \/ __js__ # NoText /\ __js__.from = __js_url__

\* C22: in a sequential series of reads every instance obtains the text
\* of its own js_url; the cache is taken only when its url equals the
\* instance's, a differing url leads to a fetch that replaces cached text
\* and cached url, and after every read the cache is a matching pair
C22_SequentialCacheCoherent ==
    /\ [](\A y \in Instances : OwnText(y))
    /\ [][\A y \in Instances :
             (jpc[y] = "load" /\ jpc'[y] = "return") =>
                 (__js_url__ = _js_url[y] /\ _js'[y] = __js__)]_vars
    /\ [][\A y \in Instances :
             (jpc[y] = "start" /\ _js[y] = NoText
                 /\ __js_url__ # _js_url[y] /\ jpc'[y] # "start") =>
                 jpc'[y] = "fetch"]_vars
    /\ [][\A y \in Instances :
             (jpc[y] = "set_url" /\ jpc'[y] = "return") =>
                 /\ __js_url__' = _js_url[y]
                 /\ __js__' # NoText
                 /\ __js__'.from = _js_url[y]]_vars
    /\ [](Quiet => CachePaired)

\* two instances of one url hold its text, one of them from the cache,
\* and a third has since replaced the cache with another url's text
C22_Witness ==
    /\ Quiet
    /\ \A y \in Instances : _js[y] # NoText
    /\ _js_url["yt1"] = _js_url["yt2"]
    /\ _js_url["yt3"] # _js_url["yt1"]
    /\ __js_url__ = _js_url["yt3"]

\* C26: with the statements of concurrent reads interleaved, no instance
\* takes from the cache a text fetched from another url than its own
C26_NoForeignText == \A y \in Instances : OwnText(y)
-----------------------------------------------------------------------------
(* helpers.py: cache(func) = lru_cache()(func), and a function wrapped     *)
(* with it as in test_helpers.py                                           *)

\* lru_cache's maxsize when it is called without arguments
maxsize == 128

MaxBeyond == 1     \* distinct arguments beyond maxsize that are drawn

CacheArgs == 0..(maxsize + MaxBeyond - 1)

\* the position of key x in the cache c, 0 if it is not there
Held(c, x) ==
    IF \E k \in 1..Len(c) : c[k].key = x
        THEN CHOOSE k \in 1..Len(c) : c[k].key = x
        ELSE 0

\* all of c but its entry at position p
Dropped(c, p) == SubSeq(c, 1, p - 1) \o SubSeq(c, p + 1, Len(c))

\* a hit leaves the order of the entries alone: not the code
TouchedInPlace(c, x) == c

\* a hit makes the entry of x the most recently used one
Touched(c, x) ==
    LET p == Held(c, x) IN Append(Dropped(c, p), c[p])

\* a miss adds an entry, and drops the least recently used one when the
\* cache is full
Inserted(c, en) ==
    IF Len(c) >= maxsize THEN Append(Tail(c), en) ELSE Append(c, en)

InitCache ==
    /\ lru = <<>>
    /\ recency = <<>>
    /\ executed = [x \in CacheArgs |-> 0]
    /\ stuff = 0
    /\ returned = Body(0, 0)
    /\ TIdle
    /\ HIdle
    /\ CIdle
    /\ PIdle
    /\ NIdle
    /\ RIdle
    /\ AIdle
    /\ JIdle
    /\ SIdle
    /\ FIdle

\* the calls that are drawn: a repeat of the first argument, a repeat of
\* the last one, or the smallest argument never used (new arguments are
\* used in increasing order, so that is the number of arguments used)
Candidates == {0, stuff} \cup ({Len(recency)} \cap CacheArgs)

\* every argument used, the most recently used last
Used(x) == Append(SelectSeq(recency, LAMBDA z : z # x), x)

\* cached_func(x) with x in the cache: the stored result is returned
CacheHit(x) ==
    /\ x \in Candidates
    /\ Held(lru, x) # 0
    /\ stuff' = x
    /\ returned' = lru[Held(lru, x)].result
    /\ lru' = Touched(lru, x)
    /\ recency' = Used(x)
    /\ UNCHANGED <<executed, tvars, hvars, cvars, pvars, nvars, rvars,
                   avars, jvars, svars, fvars>>

\* cached_func(x) with x not in the cache: the body runs and its result
\* is stored
CacheMiss(x) ==
    /\ x \in Candidates
    /\ Held(lru, x) = 0
    /\ stuff' = x
    /\ executed' = [executed EXCEPT ![x] = @ + 1]
    /\ returned' = Body(x, executed'[x])
    /\ lru' = Inserted(lru, [key |-> x, result |-> returned'])
    /\ recency' = Used(x)
    /\ UNCHANGED <<tvars, hvars, cvars, pvars, nvars, rvars, avars, jvars,
                   svars, fvars>>

NextCache == \E x \in CacheArgs : CacheHit(x) \/ CacheMiss(x)

SpecCache == InitCache /\ [][NextCache]_vars

-----------------------------------------------------------------------------
(* Claims about helpers.cache *)

WasUsed(x) == \E k \in 1..Len(recency) : recency[k] = x

\* how many other distinct arguments were used since x was last used
OthersSince(x) ==
    Len(recency) - (CHOOSE k \in 1..Len(recency) : recency[k] = x)

\* C23 as stated: the body has run exactly once for every argument that
\* was used, however many other arguments came in between
C23_OncePerArgument ==
    \A x \in CacheArgs : executed[x] = IF WasUsed(x) THEN 1 ELSE 0

\* C23 as amended: a call with an argument used before, with fewer than
\* maxsize other distinct arguments used since, returns the stored result
\* without running the body; any other call runs the body once and
\* returns its result
C23_OncePerArgumentWithinCapacity ==
    [][IF WasUsed(stuff') /\ OthersSince(stuff') < maxsize
          THEN /\ executed' = executed
               /\ returned' = Body(stuff', executed[stuff'])
          ELSE /\ executed' = [executed EXCEPT ![stuff'] = @ + 1]
               /\ returned' = Body(stuff', executed[stuff'] + 1)]_vars

\* argument 0 was used again after maxsize - 1 others and was still held
C23_Witness ==
    /\ Len(recency) = maxsize
    /\ recency[1] = 1
    /\ recency[maxsize] = 0
    /\ stuff = 0
    /\ executed[0] = 1
    /\ returned = Body(0, 1)
-----------------------------------------------------------------------------
(* search.py: Search.results and Search.get_next_results                   *)

MaxOps == 3        \* reads and calls made on one Search
MaxVideos == 1     \* most videos one fetch returns

Videos == {"v1", "v2"}
Continuations == {NoUrl, "c1", "c2"}

\* what fetch_and_parse may return: a list of videos, possibly empty, and
\* the next continuation, None on the last page
Fetches ==
    {Fetched(vs, ct) : vs \in SeqsUpTo(Videos, MaxVideos),
                       ct \in Continuations}

\* the fetched videos replace the results: not the code
ExtendedReplaced(res, vs) == vs

\* self._results.extend(videos)
Extended(res, vs) == res \o vs

InitSearch ==
    /\ _results = NoResults
    /\ _current_continuation = NoUrl
    /\ scall = "none"
    /\ fetched = Fetched(<<>>, NoUrl)
    /\ sexc = "none"
    /\ ops = 0
    /\ TIdle
    /\ HIdle
    /\ CIdle
    /\ PIdle
    /\ NIdle
    /\ RIdle
    /\ AIdle
    /\ JIdle
    /\ KIdle
    /\ FIdle

\* `if self._results:` a list with at least one element
HasResults == _results # NoResults /\ _results # <<>>

\* results: if self._results: return self._results
ResultsCached ==
    /\ ops < MaxOps
    /\ HasResults
    /\ scall' = "results"
    /\ sexc' = "none"
    /\ ops' = ops + 1
    /\ UNCHANGED <<_results, _current_continuation, fetched, tvars, hvars,
                   cvars, pvars, nvars, rvars, avars, jvars, kvars, fvars>>

\* results: videos, continuation = self.fetch_and_parse(); both stored
ResultsFetch ==
    /\ ops < MaxOps
    /\ ~HasResults
    /\ fetched' \in Fetches
    /\ _results' = fetched'.videos
    /\ _current_continuation' = fetched'.continuation
    /\ scall' = "results"
    /\ sexc' = "none"
    /\ ops' = ops + 1
    /\ UNCHANGED <<tvars, hvars, cvars, pvars, nvars, rvars, avars, jvars,
                   kvars, fvars>>

\* get_next_results with a continuation stored
NextResultsFetch ==
    /\ ops < MaxOps
    /\ _current_continuation # NoUrl
    /\ fetched' \in Fetches
    /\ scall' = "get_next_results"
    /\ ops' = ops + 1
    /\ IF _results = NoResults
          THEN \* None has no extend
               /\ sexc' = "AttributeError"
               /\ UNCHANGED <<_results, _current_continuation>>
          ELSE /\ _results' = Extended(_results, fetched'.videos)
               /\ _current_continuation' = fetched'.continuation
               /\ sexc' = "none"
    /\ UNCHANGED <<tvars, hvars, cvars, pvars, nvars, rvars, avars, jvars,
                   kvars, fvars>>

\* get_next_results without one: raise IndexError
NextResultsRaise ==
    /\ ops < MaxOps
    /\ _current_continuation = NoUrl
    /\ scall' = "get_next_results"
    /\ sexc' = "IndexError"
    /\ ops' = ops + 1
    /\ UNCHANGED <<_results, _current_continuation, fetched, tvars, hvars,
                   cvars, pvars, nvars, rvars, avars, jvars, kvars, fvars>>

NextSearch ==
    \/ ResultsCached
    \/ ResultsFetch
    \/ NextResultsFetch
    \/ NextResultsRaise

SpecSearch == InitSearch /\ [][NextSearch]_vars

-----------------------------------------------------------------------------
(* Claim about Search *)

\* this step is a call of get_next_results
CallsNext == ops' = ops + 1 /\ scall' = "get_next_results"

\* C29: get_next_results raises IndexError and changes neither results nor
\* continuation when no continuation is stored; otherwise the fetched
\* videos are appended after the results there were, and the continuation
\* becomes the one that fetch returned
C29_NextResultsAppends ==
    [][CallsNext =>
          IF _current_continuation = NoUrl
              THEN /\ sexc' = "IndexError"
                   /\ _results' = _results
                   /\ _current_continuation' = _current_continuation
              ELSE /\ sexc' = "none"
                   /\ Len(_results') = Len(_results) + Len(fetched'.videos)
                   /\ SubSeq(_results', 1, Len(_results)) = _results
                   /\ SubSeq(_results', Len(_results) + 1, Len(_results'))
                          = fetched'.videos
                   /\ _current_continuation' = fetched'.continuation]_vars

\* results was read, then two pages were appended, the last being the
\* final one
C29_Witness ==
    /\ ops = MaxOps
    /\ scall = "get_next_results"
    /\ sexc = "none"
    /\ Len(_results) = MaxOps
    /\ _current_continuation = NoUrl
-----------------------------------------------------------------------------
(* streams.py: Stream.filesize, with request.filesize and                  *)
(* request.seq_filesize (both wrapped in lru_cache) for the stream's url   *)

MaxSize == 2       \* sizes range over 0..MaxSize
MaxReads == 3      \* reads of filesize on one Stream

Sizes == 0..MaxSize

\* the statuses a request may end with other than success
ErrorCodes == {404, 500}

\* an http request made by fn and the status it got
Request(name, c) == [fn |-> name, code |-> c]

\* the one value of a set that has exactly one
TheOne(S) == CHOOSE x \in S : TRUE

\* request.seq_filesize adds the length of the header that names the
\* segment count to the segments' sizes: what it returns is never 0
SeqSizes == Sizes \ {0}

\* the manifest's contentLength: missing, or a size
Lengths == {{}} \cup {{n} : n \in Sizes}

\* the lru_cache of a request function: empty, or holding the size an
\* earlier call for this url returned
Caches(sizes) == {{}} \cup {{n} : n \in sizes}

\* if e.code != 404: raise
PropagatesNone(c) == FALSE

Propagates(c) == c # 404

\* int(stream.get('contentLength', 0))
InitFilesize ==
    /\ contentLength \in Lengths
    /\ _filesize = IF contentLength = {} THEN 0 ELSE TheOne(contentLength)
    /\ filesize_cache \in Caches(Sizes)
    /\ seq_filesize_cache \in Caches(SeqSizes)
    /\ requested = <<>>
    /\ fret = 0
    /\ fexc = NoError
    /\ reads = 0
    /\ TIdle
    /\ HIdle
    /\ CIdle
    /\ PIdle
    /\ NIdle
    /\ RIdle
    /\ AIdle
    /\ JIdle
    /\ KIdle
    /\ SIdle

CanRead == reads < MaxReads

\* if self._filesize == 0 is false: return self._filesize
FilesizeStored ==
    /\ CanRead
    /\ _filesize # 0
    /\ fret' = _filesize
    /\ fexc' = NoError
    /\ reads' = reads + 1
    /\ UNCHANGED <<contentLength, _filesize, filesize_cache,
                   seq_filesize_cache, requested, tvars, hvars, cvars, pvars,
                   nvars, rvars, avars, jvars, kvars, svars>>

\* request.filesize(self.url) returns: from its lru_cache, or by a HEAD
\* request that succeeds and whose result the cache then holds
FilesizeHead ==
    /\ CanRead
    /\ _filesize = 0
    /\ IF filesize_cache # {}
          THEN /\ _filesize' = TheOne(filesize_cache)
               /\ UNCHANGED <<filesize_cache, requested>>
          ELSE \E n \in Sizes :
                  /\ _filesize' = n
                  /\ filesize_cache' = {n}
                  /\ requested' = Append(requested, Request("filesize", 200))
    /\ fret' = _filesize'
    /\ fexc' = NoError
    /\ reads' = reads + 1
    /\ UNCHANGED <<contentLength, seq_filesize_cache, tvars, hvars, cvars,
                   pvars, nvars, rvars, avars, jvars, kvars, svars>>

\* request.filesize raises HTTPError with a code other than 404: raise
FilesizeRaise ==
    /\ CanRead
    /\ _filesize = 0
    /\ filesize_cache = {}
    /\ \E c \in ErrorCodes :
          /\ Propagates(c)
          /\ requested' = Append(requested, Request("filesize", c))
          /\ fexc' = HTTPError(c)
    /\ reads' = reads + 1
    /\ UNCHANGED <<contentLength, _filesize, filesize_cache,
                   seq_filesize_cache, fret, tvars, hvars, cvars, pvars,
                   nvars, rvars, avars, jvars, kvars, svars>>

\* request.filesize raises HTTPError and the code is 404:
\* self._filesize = request.seq_filesize(self.url), which returns from its
\* lru_cache, or makes its requests and returns, or raises
FilesizeFallback ==
    /\ CanRead
    /\ _filesize = 0
    /\ filesize_cache = {}
    /\ \E c0 \in ErrorCodes :
          /\ ~Propagates(c0)
          /\ LET asked == Append(requested, Request("filesize", c0))
             IN  IF seq_filesize_cache # {}
                    THEN /\ _filesize' = TheOne(seq_filesize_cache)
                         /\ fret' = _filesize'
                         /\ fexc' = NoError
                         /\ requested' = asked
                         /\ UNCHANGED seq_filesize_cache
                    ELSE \/ \E n \in SeqSizes :
                               /\ _filesize' = n
                               /\ fret' = n
                               /\ fexc' = NoError
                               /\ seq_filesize_cache' = {n}
                               /\ requested' =
                                     Append(asked,
                                            Request("seq_filesize", 200))
                         \/ \E c \in ErrorCodes :
                               /\ fexc' = HTTPError(c)
                               /\ requested' =
                                     Append(asked, Request("seq_filesize", c))
                               /\ UNCHANGED <<_filesize, fret,
                                              seq_filesize_cache>>
                         \* segment_count == 0
                         \/ /\ fexc' = SegmentCountError
                            /\ requested' =
                                  Append(asked, Request("seq_filesize", 200))
                            /\ UNCHANGED <<_filesize, fret,
                                           seq_filesize_cache>>
    /\ reads' = reads + 1
    /\ UNCHANGED <<contentLength, filesize_cache, tvars, hvars, cvars, pvars,
                   nvars, rvars, avars, jvars, kvars, svars>>

\* lru_cache() keeps maxsize results: request.filesize has been called
\* for maxsize other urls since this url's size was cached
FilesizeEvicted ==
    /\ filesize_cache # {}
    /\ filesize_cache' = {}
    /\ UNCHANGED <<contentLength, _filesize, seq_filesize_cache, requested,
                   fret, fexc, reads, tvars, hvars, cvars, pvars, nvars,
                   rvars, avars, jvars, kvars, svars>>

\* the same for request.seq_filesize
SeqFilesizeEvicted ==
    /\ seq_filesize_cache # {}
    /\ seq_filesize_cache' = {}
    /\ UNCHANGED <<contentLength, _filesize, filesize_cache, requested,
                   fret, fexc, reads, tvars, hvars, cvars, pvars, nvars,
                   rvars, avars, jvars, kvars, svars>>

NextFilesize ==
    \/ FilesizeStored
    \/ FilesizeHead
    \/ FilesizeRaise
    \/ FilesizeFallback
    \/ FilesizeEvicted
    \/ SeqFilesizeEvicted

SpecFilesize == InitFilesize /\ [][NextFilesize]_vars
\* a step that is one read of filesize
ReadsFilesize == reads' = reads + 1

\* the http requests the step makes
Made == SubSeq(requested', Len(requested) + 1, Len(requested'))

\* a non-zero contentLength is what every read returns, and no request is
\* ever made
C30_ManifestSizeReturned ==
    (/\ reads >= 1
     /\ contentLength # {}
     /\ TheOne(contentLength) # 0)
        => /\ fret = TheOne(contentLength)
           /\ fexc = NoError
           /\ requested = <<>>

\* with no size stored the read asks request.filesize first, asks
\* request.seq_filesize only after a 404 from it, and lets any other
\* HTTPError through with the stored size still 0
C30_FetchOrder ==
    [][(ReadsFilesize /\ _filesize = 0) =>
          /\ filesize_cache # {} =>
                 /\ Made = <<>>
                 /\ fexc' = NoError
                 /\ fret' = TheOne(filesize_cache)
          /\ filesize_cache = {} =>
                 /\ Len(Made) \in {1, 2}
                 /\ Made[1].fn = "filesize"
                 /\ Made[1].code = 200 =>
                        /\ Len(Made) = 1
                        /\ fexc' = NoError
                 /\ Made[1].code \notin {200, 404} =>
                        /\ Len(Made) = 1
                        /\ fexc' = HTTPError(Made[1].code)
                        /\ _filesize' = 0
                 /\ Len(Made) = 2 =>
                        /\ Made[1].code = 404
                        /\ Made[2].fn = "seq_filesize"
          /\ fexc' = NoError => _filesize' = fret'
          /\ fexc' # NoError => _filesize' = 0]_vars

\* a request of this Stream's reads has succeeded
Fetched200 == \E k \in 1..Len(requested) : requested[k].code = 200

\* once a read has fetched the size and the last read returned, a later read
\* returns the same size without a further request
C30_LaterReadsStored ==
    [][(ReadsFilesize /\ Fetched200 /\ fexc = NoError) =>
          /\ fret' = fret
          /\ fexc' = NoError
          /\ Made = <<>>]_vars

\* C30: Stream.filesize returns a non-zero contentLength of the manifest
\* without any request; when it is 0 or missing the first read obtains the
\* size with request.filesize, falls back to request.seq_filesize only after
\* an HTTPError with code 404, and propagates any other HTTPError leaving
\* the stored size at 0; after a successful fetch later reads return the
\* stored value without a further request
C30_FilesizeCached ==
    /\ []C30_ManifestSizeReturned
    /\ C30_FetchOrder
    /\ C30_LaterReadsStored
\* once a read has fetched a size other than 0, a later read returns the
\* same size without a further request
C30_LaterReadsStoredNonZero ==
    [][(ReadsFilesize /\ Fetched200 /\ fexc = NoError /\ fret # 0) =>
          /\ fret' = fret
          /\ fexc' = NoError
          /\ Made = <<>>]_vars

\* C30 (amended): as C30_FilesizeCached, but later reads are served from
\* the stored value only after a fetch of a size other than 0; a fetched 0
\* is not told from a missing size and is asked of request.filesize again
C30_FilesizeCachedNonZero ==
    /\ []C30_ManifestSizeReturned
    /\ C30_FetchOrder
    /\ C30_LaterReadsStoredNonZero

\* the manifest had no usable contentLength, the first read got a 404 from
\* request.filesize and the size from request.seq_filesize, and the Stream
\* has been read again since
C30_Witness ==
    /\ contentLength \in {{}, {0}}
    /\ reads >= 2
    /\ requested = <<Request("filesize", 404), Request("seq_filesize", 200)>>
    /\ fexc = NoError
    /\ _filesize # 0
    /\ fret = _filesize
=============================================================================
